---- MODULE Spec2Model ----
(***************************************************************************)
(* The Intcode virtual machine of the AoC-2019 repository and the          *)
(* orchestration protocols built on it.  Four generations of the machine   *)
(* are modelled side by side, selected by `variant`:                       *)
(*   day07  pointer advanced before execute, write targets never offset    *)
(*          by the base, input pops without an emptiness test,             *)
(*          load_program leaves bp alone;                                  *)
(*   day09  pointer advanced before execute, relative write targets,       *)
(*          input pops without an emptiness test;                          *)
(*   day11  pointer advanced after execute, input suspends on an empty     *)
(*          queue (day15/17/19 share this code path);                      *)
(*   day23  as day11 plus the Network(count) mode.                         *)
(* A panic of the Rust program (index out of bounds, expect on None,       *)
(* explicit panic!) ends the process; the machine record keeps the fields  *)
(* as they were at the panic and `fault` names it.                         *)
(***************************************************************************)
EXTENDS Integers, Sequences, FiniteSets, TLC

VARIABLES cpu, variant, prog, prev, act, hist, rs, net, amps, legacy

coreVars == <<cpu, variant, prog, prev, act, hist>>
vars == <<cpu, variant, prog, prev, act, hist, rs, net, amps, legacy>>

(***************************************************************************)
(* Sizes.  The tape has 1_000_000 cells and usize has 64 bits in the       *)
(* source; both are scaled down here.                                      *)
(***************************************************************************)
MemCap == 212
UsizeMod == 65536
MaxQueue == 2
MaxOut == 3
NRegs == 8

Addr == 0..(MemCap - 1)
RegIdx == 0..(NRegs - 1)

Variants == {"day07", "day09", "day11", "day23"}
PreAdvance(v) == v \in {"day07", "day09"}
RelWrite(v) == v # "day07"
BlockingIn(v) == v \in {"day11", "day23"}
PrintsCmd(v) == v = "day09"

Normal == [kind |-> "Normal", count |-> 0]
BreakOnOutput == [kind |-> "BreakOnOutput", count |-> 0]
Network(k) == [kind |-> "Network", count |-> k]

ModesOf(v) ==
    CASE v = "day07" -> {Normal, BreakOnOutput}
      [] v = "day09" -> {Normal}
      [] v = "day11" -> {Normal, BreakOnOutput}
      [] OTHER       -> {Normal, Network(0)}

(***************************************************************************)
(* Rust integer semantics: / and % truncate towards zero, `as usize`       *)
(* reinterprets a negative i64 as a huge unsigned value.                   *)
(***************************************************************************)
RustDiv(a, b) == IF a >= 0 THEN a \div b ELSE -((-a) \div b)
RustRem(a, b) == IF a >= 0 THEN a % b ELSE -((-a) % b)
\* an index that wraps round the tape
AsUsize_Wrap(x) == x % MemCap

AsUsize(x) == IF x >= 0 THEN x ELSE x + UsizeMod

(***************************************************************************)
(* VecDeque: index 1 is the front, Len is the back.                        *)
(***************************************************************************)
\* a push at the wrong end
push_front_Back(q, x) == q \o <<x>>

push_front(q, x) == <<x>> \o q
back(q) == q[Len(q)]
pop_back(q) == SubSeq(q, 1, Len(q) - 1)

(***************************************************************************)
(* Cpu::new                                                                *)
(***************************************************************************)
NewCpu ==
    [ip |-> 0, bp |-> 0,
     reg |-> [i \in RegIdx |-> 0],
     reg_mode |-> [i \in RegIdx |-> "Pos"],
     memory |-> [a \in Addr |-> 0],
     io_in |-> <<>>, io_out |-> <<>>,
     mode |-> Normal, state |-> "Halted", fault |-> "none"]

\* a panic that rolls the output queue back
Panic_Rollback(m, kind) == [m EXCEPT !.fault = kind, !.io_out = <<>>]

Panic(m, kind) == [m EXCEPT !.fault = kind]

(***************************************************************************)
(* load_program.  day07's version has no `bp = 0` line.                    *)
(***************************************************************************)
LoadBp(m, v) == IF v = "day07" THEN m.bp ELSE 0

load_program(m, program, v) ==
    LET m1 == [m EXCEPT !.ip = 0, !.bp = LoadBp(m, v),
                        !.io_in = <<>>, !.io_out = <<>>,
                        !.state = "Ready",
                        !.memory = [a \in Addr |-> 0]]
    IN  IF Len(program) > MemCap
        THEN Panic(m1, "OutOfBounds")
        ELSE [m1 EXCEPT !.memory =
                 [a \in Addr |-> IF a < Len(program) THEN program[a + 1] ELSE 0]]

(***************************************************************************)
(* get_cmd: the decode table.                                              *)
(***************************************************************************)
Cmd(op, n, w) == [op |-> op, n_operands |-> n, writes |-> w]
NoCmd == Cmd("None", 0, FALSE)

\* a decoder taking the mathematical (floored) remainder
Opcode_Floored(instruction) == instruction % 100

Opcode(instruction) == RustRem(instruction, 100)

get_cmd(instruction) ==
    LET opcode == Opcode(instruction)
    IN  CASE opcode = 1  -> Cmd("Add", 3, TRUE)
          [] opcode = 2  -> Cmd("Mul", 3, TRUE)
          [] opcode = 3  -> Cmd("In", 1, TRUE)
          [] opcode = 4  -> Cmd("Out", 1, FALSE)
          [] opcode = 5  -> Cmd("Jnz", 2, FALSE)
          [] opcode = 6  -> Cmd("Jz", 2, FALSE)
          [] opcode = 7  -> Cmd("Lt", 3, TRUE)
          [] opcode = 8  -> Cmd("Cmp", 3, TRUE)
          [] opcode = 9  -> Cmd("AdjBp", 1, FALSE)
          [] opcode = 99 -> Cmd("Hlt", 0, FALSE)
          [] OTHER       -> NoCmd

(***************************************************************************)
(* get_mode: one decimal digit of instruction / 100 per operand, least     *)
(* significant first; the loop panics on a digit outside 0..2 after        *)
(* having written the slots before it.                                     *)
(***************************************************************************)
ModeOfDigit(d) ==
    CASE d = 0 -> "Pos"
      [] d = 1 -> "Imm"
      [] d = 2 -> "Rel"
      [] OTHER -> "Bad"

RECURSIVE ModeLoop(_, _, _, _)
ModeLoop(m, digits, i, n) ==
    IF i >= n THEN m
    ELSE LET md == ModeOfDigit(RustRem(digits, 10))
         IN  IF md = "Bad"
             THEN Panic(m, "BadMode")
             ELSE ModeLoop([m EXCEPT !.reg_mode[i] = md],
                           RustDiv(digits, 10), i + 1, n)

\* a decoder that drops one digit too few before reading the modes
get_mode_Div10(m, instruction, n_operands) ==
    ModeLoop(m, RustDiv(instruction, 10), 0, n_operands)

get_mode(m, instruction, n_operands) ==
    ModeLoop(m, RustDiv(instruction, 100), 0, n_operands)

(***************************************************************************)
(* day05's get_mode stores the digits themselves, unchecked.               *)
(***************************************************************************)
RECURSIVE ModeLoop05(_, _, _, _)
ModeLoop05(mode, digits, i, n) ==
    IF i >= n THEN mode
    ELSE ModeLoop05([mode EXCEPT ![i] = RustRem(digits, 10)],
                    RustDiv(digits, 10), i + 1, n)

get_mode05(instruction, n_operands) ==
    ModeLoop05([i \in RegIdx |-> 0], RustDiv(instruction, 100), 0, n_operands)

(***************************************************************************)
(* run's operand fetch: reg[i] = memory[ip + i + 1].                       *)
(***************************************************************************)
RECURSIVE FetchLoop(_, _, _)
FetchLoop(m, i, n) ==
    IF i >= n THEN m
    ELSE IF m.ip + i + 1 >= MemCap
         THEN Panic(m, "OutOfBounds")
         ELSE FetchLoop([m EXCEPT !.reg[i] = m.memory[m.ip + i + 1]], i + 1, n)

(***************************************************************************)
(* execute_cmd, first loop: every operand but a final write target is      *)
(* replaced by the value it denotes.                                       *)
(***************************************************************************)
ReadAddr(m, i) ==
    IF m.reg_mode[i] = "Rel" THEN AsUsize(m.bp + m.reg[i]) ELSE AsUsize(m.reg[i])

ReadOperand(m, i) ==
    IF m.reg_mode[i] = "Imm" THEN m
    ELSE IF ReadAddr(m, i) < MemCap
         THEN [m EXCEPT !.reg[i] = m.memory[ReadAddr(m, i)]]
         ELSE Panic(m, "OutOfBounds")

RECURSIVE ResolveLoop(_, _, _)
ResolveLoop(m, i, n) ==
    IF i >= n \/ m.fault # "none" THEN m
    ELSE ResolveLoop(ReadOperand(m, i), i + 1, n)

(***************************************************************************)
(* The write target: `if let RegMode::Rel = reg_mode[i] { reg[i] += bp }`  *)
(* (absent in day07), then memory[reg[i] as usize] = value.                *)
(***************************************************************************)
\* a write target whose immediate mode names the operand's own cell
WriteTarget_ImmCell(m, i, v) ==
    IF m.reg_mode[i] = "Imm"
    THEN (IF PreAdvance(v) THEN m.ip - 1 ELSE m.ip + i + 1)
    ELSE IF RelWrite(v) /\ m.reg_mode[i] = "Rel" THEN m.reg[i] + m.bp ELSE m.reg[i]

WriteTarget(m, i, v) ==
    IF RelWrite(v) /\ m.reg_mode[i] = "Rel" THEN m.reg[i] + m.bp ELSE m.reg[i]

Store(m, i, value, v) ==
    LET t  == WriteTarget(m, i, v)
        m1 == [m EXCEPT !.reg[i] = t]
    IN  IF AsUsize(t) < MemCap
        THEN [m1 EXCEPT !.memory[AsUsize(t)] = value]
        ELSE Panic(m1, "OutOfBounds")

(***************************************************************************)
(* execute_cmd, the match on cmd.op.  Each arm yields the machine and      *)
(* whether the arm returned early (skipping day11+'s trailing ip advance). *)
(***************************************************************************)
Arm(m, ret) == [m |-> m, ret |-> ret]

AddValue(a, b) == a + b
MulValue(a, b) == a * b
\* a less-than that also accepts equality
LtValue_Le(a, b) == IF a <= b THEN 1 ELSE 0

LtValue(a, b) == IF a < b THEN 1 ELSE 0
CmpValue(a, b) == IF a = b THEN 1 ELSE 0

OpAdd(m, v) == Arm(Store(m, 2, AddValue(m.reg[0], m.reg[1]), v), FALSE)
OpMul(m, v) == Arm(Store(m, 2, MulValue(m.reg[0], m.reg[1]), v), FALSE)
OpLt(m, v)  == Arm(Store(m, 2, LtValue(m.reg[0], m.reg[1]), v), FALSE)
OpCmp(m, v) == Arm(Store(m, 2, CmpValue(m.reg[0], m.reg[1]), v), FALSE)

\* a blocking input arm that suspends but falls through to the pointer advance
InEmpty_Advance(m, v) ==
    IF ~BlockingIn(v)
    THEN Arm(Panic(m, "NoIo"), FALSE)
    ELSE IF m.mode.kind = "Network"
         THEN Arm(Store([m EXCEPT !.state = "Ready"], 0, -1, v), FALSE)
         ELSE Arm([m EXCEPT !.state = "Ready"], FALSE)

\* a network poll that reports 0 for "no input"
InEmpty_NetZero(m, v) ==
    IF ~BlockingIn(v)
    THEN Arm(Panic(m, "NoIo"), FALSE)
    ELSE IF m.mode.kind = "Network"
         THEN Arm(Store([m EXCEPT !.state = "Ready"], 0, 0, v), FALSE)
         ELSE Arm([m EXCEPT !.state = "Ready"], TRUE)

InEmpty(m, v) ==
    IF ~BlockingIn(v)
    THEN Arm(Panic(m, "NoIo"), FALSE)
    ELSE IF m.mode.kind = "Network"
         THEN Arm(Store([m EXCEPT !.state = "Ready"], 0, -1, v), FALSE)
         ELSE Arm([m EXCEPT !.state = "Ready"], TRUE)

\* an input arm that takes the newest queued value instead of the oldest
OpIn_PopFront(m, v) ==
    IF m.io_in = <<>>
    THEN InEmpty(m, v)
    ELSE Arm(Store([m EXCEPT !.io_in = Tail(m.io_in)], 0, Head(m.io_in), v),
             FALSE)

OpIn(m, v) ==
    IF m.io_in = <<>>
    THEN InEmpty(m, v)
    ELSE Arm(Store([m EXCEPT !.io_in = pop_back(m.io_in)], 0, back(m.io_in), v),
             FALSE)

\* an output arm that never suspends in break-on-output mode
OutMode_NoBreak(m) ==
    CASE m.mode.kind = "Network" /\ m.mode.count = 0 ->
             [m EXCEPT !.mode = Network(1)]
      [] m.mode.kind = "Network" /\ m.mode.count = 1 ->
             [m EXCEPT !.mode = Network(2)]
      [] m.mode.kind = "Network" /\ m.mode.count = 2 ->
             [m EXCEPT !.mode = Network(0), !.state = "Ready"]
      [] OTHER -> m

OutMode(m) ==
    CASE m.mode.kind = "BreakOnOutput" -> [m EXCEPT !.state = "Ready"]
      [] m.mode.kind = "Network" /\ m.mode.count = 0 ->
             [m EXCEPT !.mode = Network(1)]
      [] m.mode.kind = "Network" /\ m.mode.count = 1 ->
             [m EXCEPT !.mode = Network(2)]
      [] m.mode.kind = "Network" /\ m.mode.count = 2 ->
             [m EXCEPT !.mode = Network(0), !.state = "Ready"]
      [] OTHER -> m

OpOut(m, v) ==
    Arm(OutMode([m EXCEPT !.io_out = push_front(m.io_out, m.reg[0])]), FALSE)

JumpTo(m, target) == [m EXCEPT !.ip = AsUsize(target)]

\* a jump-if-not-zero arm without the early return
OpJnz_NoReturn(m, v) ==
    IF m.reg[0] # 0 THEN Arm(JumpTo(m, m.reg[1]), FALSE) ELSE Arm(m, FALSE)

OpJnz(m, v) ==
    IF m.reg[0] # 0 THEN Arm(JumpTo(m, m.reg[1]), TRUE) ELSE Arm(m, FALSE)

\* a jump-if-zero arm without the early return
OpJz_NoReturn(m, v) ==
    IF m.reg[0] = 0 THEN Arm(JumpTo(m, m.reg[1]), FALSE) ELSE Arm(m, FALSE)

OpJz(m, v) ==
    IF m.reg[0] = 0 THEN Arm(JumpTo(m, m.reg[1]), TRUE) ELSE Arm(m, FALSE)

\* a base adjustment that assigns instead of adding
OpAdjBp_Set(m, v) == Arm([m EXCEPT !.bp = m.reg[0]], FALSE)

OpAdjBp(m, v) == Arm([m EXCEPT !.bp = m.bp + m.reg[0]], FALSE)

\* a halt arm that suspends instead of halting
OpHlt_Ready(m, v) == Arm([m EXCEPT !.state = "Ready"], TRUE)

OpHlt(m, v) == Arm([m EXCEPT !.state = "Halted"], TRUE)

OpArm(m, cmd, v) ==
    CASE cmd.op = "Add"   -> OpAdd(m, v)
      [] cmd.op = "Mul"   -> OpMul(m, v)
      [] cmd.op = "In"    -> OpIn(m, v)
      [] cmd.op = "Out"   -> OpOut(m, v)
      [] cmd.op = "Jnz"   -> OpJnz(m, v)
      [] cmd.op = "Jz"    -> OpJz(m, v)
      [] cmd.op = "Lt"    -> OpLt(m, v)
      [] cmd.op = "Cmp"   -> OpCmp(m, v)
      [] cmd.op = "AdjBp" -> OpAdjBp(m, v)
      [] OTHER            -> OpHlt(m, v)

Boundary(cmd) == IF cmd.writes THEN 1 ELSE 0

Advance(m, cmd) == [m EXCEPT !.ip = m.ip + cmd.n_operands + 1]

\* an execute_cmd whose arms never return before the trailing ip advance
execute_cmd_NoEarlyReturn(m, cmd, v) ==
    LET m1 == ResolveLoop(m, 0, cmd.n_operands - Boundary(cmd))
    IN  IF m1.fault # "none" THEN m1
        ELSE LET r == OpArm(m1, cmd, v)
             IN  IF r.m.fault # "none" \/ PreAdvance(v)
                 THEN r.m
                 ELSE Advance(r.m, cmd)

execute_cmd(m, cmd, v) ==
    LET m1 == ResolveLoop(m, 0, cmd.n_operands - Boundary(cmd))
    IN  IF m1.fault # "none" THEN m1
        ELSE LET r == OpArm(m1, cmd, v)
             IN  IF r.m.fault # "none" \/ r.ret \/ PreAdvance(v)
                 THEN r.m
                 ELSE Advance(r.m, cmd)

(***************************************************************************)
(* One iteration of the loop in run / run_cpu.                             *)
(***************************************************************************)
Cycle(m, v) ==
    IF m.ip >= MemCap THEN Panic(m, "OutOfBounds")
    ELSE LET instruction == m.memory[m.ip]
             cmd == get_cmd(instruction)
         IN  IF cmd.op = "None" THEN Panic(m, "InvalidOpcode")
             ELSE LET m1 == get_mode(m, instruction, cmd.n_operands)
                      m2 == IF m1.fault # "none" THEN m1
                            ELSE IF PrintsCmd(v) /\ m1.ip + cmd.n_operands >= MemCap
                                 THEN Panic(m1, "OutOfBounds")
                                 ELSE FetchLoop(m1, 0, cmd.n_operands)
                  IN  IF m2.fault # "none" THEN m2
                      ELSE IF PreAdvance(v)
                           THEN execute_cmd(Advance(m2, cmd), cmd, v)
                           ELSE execute_cmd(m2, cmd, v)

(***************************************************************************)
(* Program images the machine is exercised on.  The one-instruction        *)
(* families put every opcode under every combination of addressing modes   *)
(* behind `109,BaseAdj` (so the base register is not zero) and in front    *)
(* of a halt; the one-cell family feeds the decoder every small            *)
(* instruction word of either sign.                                        *)
(***************************************************************************)
BaseAdj == 2
DecRange == 130
MaxBp == 6

ModeDigits == 0..2
Instr3 == {op + 100 * a + 1000 * b + 10000 * c :
             op \in {1, 2, 7, 8}, a \in ModeDigits, b \in ModeDigits, c \in ModeDigits}
Instr2 == {op + 100 * a + 1000 * b :
             op \in {5, 6}, a \in ModeDigits, b \in ModeDigits}
Instr1 == {op + 100 * a : op \in {3, 4, 9}, a \in ModeDigits}

Progs3 == {<<109, BaseAdj, instr, x, y, z, 99>> :
             instr \in Instr3, x \in {-1, 4}, y \in {-1, 3}, z \in {-1, 0, 5, MemCap - 1}}
Progs2 == {<<109, BaseAdj, instr, x, y, 99, 0, 99>> :
             instr \in Instr2, x \in {0, 1, 6}, y \in {-1, 2, 4, 7}}
Progs1 == {<<109, BaseAdj, instr, x, 99>> :
             instr \in Instr1, x \in {-1, 0, 3, MemCap - 1}}
ProgsDec == {<<w>> : w \in (-DecRange..DecRange) \cup {301, 1301, 3001, 30001, 1099, 1199}}

\* read two inputs, emit them in order, halt
Echo2 == <<3, 9, 3, 10, 4, 9, 4, 10, 99>>
\* read three inputs, emit the second, halt
In3 == <<3, 9, 3, 10, 3, 11, 4, 10, 99>>
\* read a base adjustment, apply it, read and emit relative to it, halt
RelIn == <<3, 3, 109, 0, 203, 9, 204, 9, 99>>
\* read a flag; if it is not zero read and emit a second input; halt
JmpIn == <<3, 11, 1005, 11, 6, 99, 3, 12, 4, 12, 99>>

\* adjust the base twice, then read and emit relative to it, halt
Adj2In == <<109, 2, 109, 3, 203, 4, 204, 4, 99>>

ProgsFixed == {Echo2, In3, RelIn, JmpIn, Adj2In, <<99>>}

\* emit 7, then a word that is no instruction
OutBad == <<104, 7, 55>>
\* jump to the first address behind the tape
JumpHigh == <<1105, 1, MemCap>>
\* jump to the last cell of the tape, which holds an add instruction
TailOp ==
    [k \in 1..MemCap |->
       CASE k = 1 -> 1105 [] k = 2 -> 1 [] k = 3 -> MemCap - 1
         [] k = MemCap -> 1 [] OTHER -> 0]

ProgsFault == {OutBad, JumpHigh, TailOp}

Programs ==
    Progs3 \cup Progs2 \cup Progs1 \cup ProgsDec \cup ProgsFixed \cup ProgsFault
Reloads == {<<99>>}

\* the programs a caller queues input for: those with an input instruction
InputProgs ==
    (ProgsFixed \ {<<99>>})
    \cup {p \in ProgsDec : Opcode(p[1]) = 3}
    \cup {p \in Progs1 : Opcode(p[3]) = 3}

InVals == {0, 2}

\* the logs of one machine after one cycle took it from m0 to m1
GotAfter(log, m0, m1) ==
    IF Len(m1.io_in) < Len(m0.io_in) /\ m1.fault = "none"
    THEN Append(log, m1.memory[AsUsize(m1.reg[0])]) ELSE log
EmittedAfter(log, m0, m1) ==
    IF Len(m1.io_out) > Len(m0.io_out) THEN Append(log, m1.reg[0]) ELSE log

\* machines that share one input queue
AfterCycle_Shared(ms, i, m1) ==
    [j \in DOMAIN ms |-> IF j = i THEN m1 ELSE [ms[j] EXCEPT !.io_in = m1.io_in]]

\* an array of machines after machine i, borrowed `&mut`, ran one cycle
AfterCycle(ms, i, m1) == [ms EXCEPT ![i] = m1]

\* the resume scenario is not part of the single-machine specification
NoResume == [phase |-> "none"]
\* nor is the network
NoNet == [pc |-> "none"]
\* nor are the amplifier orchestrators of day07
NoAmps == [pc |-> "none", kind |-> "none"]

\* The day02 and day05 interpreters are not running.
NoLegacy == [pc |-> "none", kind |-> "none"]

\* History kept beside the machine: `outs` counts the values the current
\* (or last) run has appended to io_out; the four logs are the values sent
\* to io_in, received from it by the program, emitted by the program and
\* taken from io_out, in the order that happened.
NoHist == [outs |-> 0, sent |-> <<>>, got |-> <<>>, emitted |-> <<>>, taken |-> <<>>]

(***************************************************************************)
(* The single-machine specification: a caller constructs a machine,        *)
(* selects its mode, loads programs, queues input, runs and drains         *)
(* output, in any order the API allows between runs.                       *)
(***************************************************************************)
Init ==
    /\ variant \in Variants
    /\ \E md \in ModesOf(variant) : cpu = [NewCpu EXCEPT !.mode = md]
    /\ prog = <<>>
    /\ prev = cpu
    /\ act = "Init"
    /\ hist = NoHist /\ legacy = NoLegacy
    /\ rs = NoResume
    /\ net = NoNet
    /\ amps = NoAmps

Idle == cpu.state # "Active" /\ cpu.fault = "none"

Load ==
    /\ Idle
    /\ \E p \in (IF prog = <<>> THEN Programs ELSE {prog} \cup Reloads) :
          /\ cpu' = load_program(cpu, p, variant)
          /\ prog' = p
    /\ prev' = cpu
    /\ act' = "Load"
    /\ UNCHANGED <<legacy, variant, hist, rs, net, amps>>

SendInput ==
    /\ Idle
    /\ cpu.state = "Ready"
    /\ prog \in InputProgs
    /\ Len(cpu.io_in) < MaxQueue
    /\ \E x \in InVals : cpu' = [cpu EXCEPT !.io_in = push_front(@, x)]
    /\ prev' = cpu
    /\ act' = "SendInput"
    /\ UNCHANGED <<legacy, variant, prog, hist, rs, net, amps>>

TakeOutput ==
    /\ Idle
    /\ cpu.io_out # <<>>
    /\ cpu' = [cpu EXCEPT !.io_out = pop_back(@)]
    /\ prev' = cpu
    /\ act' = "TakeOutput"
    /\ UNCHANGED <<legacy, variant, prog, hist, rs, net, amps>>

Run ==
    /\ Idle
    /\ prog # <<>>
    /\ cpu' = [cpu EXCEPT !.state = "Active"]
    /\ prev' = cpu
    /\ act' = "Run"
    /\ hist' = [hist EXCEPT !.outs = 0]
    /\ UNCHANGED <<legacy, variant, prog, rs, net, amps>>

Step ==
    /\ cpu.state = "Active"
    /\ cpu.fault = "none"
    /\ cpu.bp <= MaxBp /\ -cpu.bp <= MaxBp
    /\ Len(cpu.io_out) < MaxOut
    /\ cpu' = Cycle(cpu, variant)
    /\ prev' = cpu
    /\ act' = "Cycle"
    /\ hist' = [hist EXCEPT !.outs = @ + Len(cpu'.io_out) - Len(cpu.io_out)]
    /\ UNCHANGED <<legacy, variant, prog, rs, net, amps>>

Next == Load \/ SendInput \/ TakeOutput \/ Run \/ Step

Spec == Init /\ [][Next]_vars

(***************************************************************************)
(* The resume scenario: the same program and input sequence are given to   *)
(* two machines of the blocking-input generation.  `split` gets the first  *)
(* k inputs, runs until it suspends on the empty queue, gets the rest and  *)
(* runs again; `whole` gets the whole sequence and runs once.              *)
(***************************************************************************)
MaxIn == 3

InSeqs == UNION {[1..n -> InVals] : n \in 0..MaxIn}
ResumeProgs == InputProgs \ ProgsDec

RECURSIVE SendAll(_, _)
SendAll(m, xs) ==
    IF xs = <<>> THEN m
    ELSE SendAll([m EXCEPT !.io_in = push_front(@, Head(xs))], Tail(xs))

Stopped(m) == m.state # "Active" \/ m.fault # "none"
Runnable(m) ==
    /\ ~Stopped(m)
    /\ m.bp <= MaxBp /\ -m.bp <= MaxBp
    /\ Len(m.io_out) < MaxOut

InitResume ==
    /\ cpu = NewCpu /\ variant = "day23" /\ prog = <<>>
    /\ prev = NewCpu /\ act = "Init" /\ hist = NoHist /\ legacy = NoLegacy
    /\ net = NoNet /\ amps = NoAmps
    /\ \E v \in {"day11", "day23"}, p \in ResumeProgs, ins \in InSeqs :
          \E k \in 0..Len(ins) :
             rs = [phase |-> "new", v |-> v, p |-> p, ins |-> ins, k |-> k,
                   split |-> NewCpu, whole |-> NewCpu]

\* load both machines and queue the prefix on one, everything on the other
RLoad ==
    /\ rs.phase = "new"
    /\ rs' = [rs EXCEPT
                !.phase = "loaded",
                !.split = SendAll(load_program(rs.split, rs.p, rs.v),
                                  SubSeq(rs.ins, 1, rs.k)),
                !.whole = SendAll(load_program(rs.whole, rs.p, rs.v), rs.ins)]
    /\ UNCHANGED <<legacy, coreVars, net, amps>>

\* run() is entered on the split machine: first run, or the resumed one
RRunSplit ==
    /\ rs.phase \in {"loaded", "fed"}
    /\ rs' = [rs EXCEPT !.phase = IF rs.phase = "loaded" THEN "first" ELSE "second",
                        !.split.state = "Active"]
    /\ UNCHANGED <<legacy, coreVars, net, amps>>

RStepSplit ==
    /\ rs.phase \in {"first", "second"}
    /\ Runnable(rs.split)
    /\ rs' = [rs EXCEPT !.split = Cycle(rs.split, rs.v)]
    /\ UNCHANGED <<legacy, coreVars, net, amps>>

\* the first run came back suspended on the empty queue: queue the rest
RFeed ==
    /\ rs.phase = "first"
    /\ rs.split.state = "Ready" /\ rs.split.fault = "none"
    /\ rs.split.io_in = <<>>
    /\ rs' = [rs EXCEPT !.phase = "fed",
                        !.split = SendAll(rs.split,
                                          SubSeq(rs.ins, rs.k + 1, Len(rs.ins)))]
    /\ UNCHANGED <<legacy, coreVars, net, amps>>

RRunWhole ==
    /\ rs.phase = "second"
    /\ Stopped(rs.split)
    /\ rs' = [rs EXCEPT !.phase = "whole", !.whole.state = "Active"]
    /\ UNCHANGED <<legacy, coreVars, net, amps>>

RStepWhole ==
    /\ rs.phase = "whole"
    /\ Runnable(rs.whole)
    /\ rs' = [rs EXCEPT !.whole = Cycle(rs.whole, rs.v)]
    /\ UNCHANGED <<legacy, coreVars, net, amps>>

NextResume ==
    RLoad \/ RRunSplit \/ RStepSplit \/ RFeed \/ RRunWhole \/ RStepWhole

SpecResume == InitResume /\ [][NextResume]_vars

(***************************************************************************)
(* run_network (day23).  `net.pc` is the orchestrator's position:          *)
(*   new    before the set-up loop                                         *)
(*   run    about to call nics[i].run()                                    *)
(*   cycle  inside that run                                                *)
(*   route  the run has returned, the output queue is inspected            *)
(*   idle   the for loop is over, the idle test follows                    *)
(*   done   returned (the repeated y is net.result); dead: panicked.       *)
(* net.emitted[j] logs what machine j's program has emitted since the      *)
(* orchestrator last looked at its output queue, net.packets counts the    *)
(* triples taken from output queues during the current pass of the for     *)
(* loop, net.first tells that this pass is the first, and net.natlog       *)
(* holds the packets the NAT has delivered so far, oldest first, cut to    *)
(* the last MaxNatLog of them; net.natgot is the set of packets the NAT    *)
(* has received and net.idles counts the idle steps in a row, up to        *)
(* MaxNatLog + 1.  net.ran is the set of machines whose run                *)
(* of the current pass has been entered; net.early[j] and net.late[j] are  *)
(* the values other machines' packets put on machine j's input queue in    *)
(* the current pass before, and after, j's own run was entered.  `act`     *)
(* names the last step and `prev` is the machine as it was before its      *)
(* last cycle.                                                             *)
(* The source has 50 machines; NNics scales that down.                     *)
(***************************************************************************)
NNics == 2
NatAddr == 255
MaxNatLog == 2
Nics == 0..(NNics - 1)

N_Halt == <<99>>
N_ReadHalt == <<3, 0, 99>>
\* one packet (7, 8) to the NAT, then halt
N_Nat == <<3, 0, 104, 255, 104, 7, 104, 8, 99>>
\* one packet (5, 6) to machine 0, then halt
N_To0 == <<3, 0, 104, 0, 104, 5, 104, 6, 99>>
\* one packet (5, 6) to machine 1, then halt
N_To1 == <<3, 0, 104, 1, 104, 5, 104, 6, 99>>
\* one packet to an address no machine has
N_Stray == <<3, 0, 104, 9, 104, 5, 104, 6, 99>>
\* two values of a packet, then halt
N_Short == <<3, 0, 104, 255, 104, 7, 99>>
\* poll for input for ever
N_Poll == <<3, 0, 3, 1, 1105, 1, 2>>
\* forward every value received to the NAT as (value, value)
N_Fwd == <<3, 15, 3, 15, 104, 255, 4, 15, 4, 15, 1105, 1, 2>>

\* packet (2, 9) to the NAT, one poll, packet (3, 9) to the NAT, then poll
\* for ever
N_SameY == <<3, 0, 104, 255, 104, 2, 104, 9, 3, 0,
             104, 255, 104, 3, 104, 9, 3, 0, 1105, 1, 16>>

\* machine 0 sends (5, 6) to machine 1; every machine then reads twice
N_Up == <<3, 20, 1005, 20, 11, 104, 1, 104, 5, 104, 6, 3, 21, 3, 22, 99>>
\* machine 1 sends (5, 6) to machine 0; every machine then reads twice
N_Down == <<3, 20, 1006, 20, 11, 104, 0, 104, 5, 104, 6, 3, 21, 3, 22, 99>>

\* poll; answer every packet received with the packet (7, 8) to the NAT
N_Quiet == <<3, 22, 3, 22, 101, 1, 22, 23, 1006, 23, 2, 3, 22,
             104, 255, 104, 7, 104, 8, 1105, 1, 2>>

NetProgs ==
    {N_Halt, N_ReadHalt, N_Nat, N_To0, N_To1, N_Stray, N_Short, N_Poll, N_Fwd,
     N_SameY, N_Quiet, N_Up, N_Down}

\* the networks that settle: every machine ends up polling, and a delivery
\* from the NAT is answered with the same packet to the NAT
Settling == {N_Fwd, N_Quiet}

InitNet ==
    /\ cpu = NewCpu /\ variant = "day23" /\ prog = <<>>
    /\ prev = NewCpu /\ act = "Init" /\ hist = NoHist /\ legacy = NoLegacy
    /\ rs = NoResume /\ amps = NoAmps
    /\ \E p \in NetProgs :
          net = [pc |-> "new", program |-> p, i |-> 0,
                 nics |-> [j \in Nics |-> NewCpu],
                 emitted |-> [j \in Nics |-> <<>>],
                 packets |-> 0, first |-> TRUE, natlog |-> <<>>,
                 natgot |-> {}, idles |-> 0, ran |-> {},
                 early |-> [j \in Nics |-> <<>>],
                 late |-> [j \in Nics |-> <<>>],
                 nat_packet |-> <<0, 0>>, prev_nat |-> <<0, 0>>,
                 is_idle |-> FALSE, result |-> 0]

\* the set-up loop: load, select network mode, queue the address
NetSetup ==
    /\ net.pc = "new"
    /\ net' = [net EXCEPT
                 !.pc = "run",
                 !.nics = [j \in Nics |->
                             [load_program(net.nics[j], net.program, "day23")
                                EXCEPT !.mode = Network(0), !.io_in = <<j>>]]]
    /\ act' = "NetSetup"
    /\ UNCHANGED <<legacy, cpu, variant, prog, prev, hist, rs, amps>>

\* nic.run() is entered
NetRun ==
    /\ net.pc = "run"
    /\ net' = [net EXCEPT !.pc = "cycle", !.nics[net.i].state = "Active",
                           !.ran = @ \cup {net.i}]
    /\ act' = "NetRun"
    /\ UNCHANGED <<legacy, cpu, variant, prog, prev, hist, rs, amps>>

\* one iteration of the loop in run; the run returns when the state is no
\* longer Active, the process dies when the cycle panics
NetStep ==
    /\ net.pc = "cycle"
    /\ LET m == Cycle(net.nics[net.i], "day23")
       IN  net' = [net EXCEPT
                     !.nics = AfterCycle(@, net.i, m),
                     !.emitted[net.i] = EmittedAfter(@, net.nics[net.i], m),
                     !.pc = IF m.fault # "none" THEN "dead"
                            ELSE IF m.state = "Active" THEN "cycle" ELSE "route"]
    /\ prev' = net.nics[net.i]
    /\ act' = "Cycle"
    /\ UNCHANGED <<legacy, cpu, variant, prog, hist, rs, amps>>

\* a delivery that queues y before x
Deliver_Swapped(q, x, y) == push_front(push_front(q, y), x)

\* io_in.push_front(x); io_in.push_front(y)
Deliver(q, x, y) == push_front(push_front(q, x), y)

\* the body of `if !nic.io_out.is_empty()` and the end of the for body
Routed(n) ==
    LET out == n.nics[n.i].io_out
    IN  IF out = <<>> THEN n
        ELSE IF Len(out) < 3
        THEN [n EXCEPT !.is_idle = FALSE, !.pc = "dead",
                       !.nics[n.i].io_out = <<>>,
                       !.nics[n.i].fault = "NoOutput"]
        ELSE LET dest == out[Len(out)]
                 x    == out[Len(out) - 1]
                 y    == out[Len(out) - 2]
                 n1   == [n EXCEPT !.is_idle = FALSE,
                                   !.packets = @ + 1,
                                   !.nics[n.i].io_out = SubSeq(out, 1, Len(out) - 3)]
             IN  IF dest = NatAddr
                 THEN [n1 EXCEPT !.nat_packet = <<x, y>>, !.natgot = @ \cup {<<x, y>>}]
                 ELSE IF AsUsize(dest) >= NNics
                      THEN [n1 EXCEPT !.pc = "dead"]
                      ELSE [n1 EXCEPT
                              !.nics[dest].io_in = Deliver(@, x, y),
                              !.early[dest] = IF dest \in n.ran THEN @
                                              ELSE @ \o <<x, y>>,
                              !.late[dest] = IF dest \in n.ran THEN @ \o <<x, y>>
                                             ELSE @]

\* a for loop that leaves out every other machine
NextNic_Skip(i) == i + 2

\* `for i in 0..50`
NextNic(i) == i + 1

NetRoute ==
    /\ net.pc = "route"
    /\ LET n == [Routed(net) EXCEPT !.emitted[net.i] = <<>>]
       IN  net' = IF n.pc = "dead" THEN n
                  ELSE IF NextNic(n.i) < NNics
                       THEN [n EXCEPT !.i = NextNic(n.i), !.pc = "run"]
                       ELSE [n EXCEPT !.pc = "idle"]
    /\ act' = "NetRoute"
    /\ UNCHANGED <<legacy, cpu, variant, prog, prev, hist, rs, amps>>

\* a NAT that resumes the last machine instead of the first
NatTarget_Last == NNics - 1

\* the machine the NAT delivers to
NatTarget == 0

\* a NAT that gives its packet away when it delivers it
HeldAfter_Cleared(packet) == <<0, 0>>

\* the NAT's packet after a delivery: the idle branch reads nat_packet and
\* never assigns it
HeldAfter(packet) == packet

\* `is_idle = true` and the next turn of `loop`
NewPass(n) ==
    [n EXCEPT !.packets = 0, !.first = FALSE, !.ran = {},
              !.early = [j \in Nics |-> <<>>],
              !.late = [j \in Nics |-> <<>>],
              !.is_idle = TRUE, !.i = 0, !.pc = "run"]

\* the delivery log after one more delivery
Logged(log, packet) ==
    LET l == Append(log, packet)
    IN  IF Len(l) > MaxNatLog THEN Tail(l) ELSE l

\* `if is_idle { ... }` and `is_idle = true` behind the for loop
NetIdle ==
    /\ net.pc = "idle"
    /\ net' =
         IF net.is_idle
         THEN LET n == [net EXCEPT !.nics[NatTarget].io_in =
                           Deliver(@, net.nat_packet[1], net.nat_packet[2]),
                           !.natlog = Logged(@, net.nat_packet),
                           !.idles = IF @ < MaxNatLog + 1 THEN @ + 1 ELSE @]
              IN  IF net.nat_packet = net.prev_nat
                  THEN [n EXCEPT !.pc = "done", !.result = net.nat_packet[2]]
                  ELSE NewPass([n EXCEPT !.prev_nat = net.nat_packet,
                                         !.nat_packet = HeldAfter(@)])
         ELSE NewPass([net EXCEPT !.idles = 0])
    /\ act' = "NetIdle"
    /\ UNCHANGED <<legacy, cpu, variant, prog, prev, hist, rs, amps>>

NextNet == NetSetup \/ NetRun \/ NetStep \/ NetRoute \/ NetIdle

SpecNet == InitNet /\ [][NextNet]_vars

(***************************************************************************)
(* run_network as a running process: the orchestrator's own steps are      *)
(* taken when they can be, and a machine inside run keeps cycling.         *)
(* NetCycleStep is what every NetStep does to `act` and `prev`.            *)
(***************************************************************************)
NetCycleStep ==
    /\ net.pc = "cycle"
    /\ act' = "Cycle"
    /\ prev' = net.nics[net.i]

NetOrchestrate == NetSetup \/ NetRun \/ NetRoute \/ NetIdle

SpecNetFair ==
    /\ InitNet
    /\ [][NextNet]_vars
    /\ WF_vars(NetOrchestrate)
    /\ WF_<<act, prev>>(NetCycleStep)

(***************************************************************************)
(* Termination scenario: one machine, a program whose loops are bounded    *)
(* and which ends in a halt, and all the input it will ask for queued      *)
(* before the first run.  A caller runs it, and runs it again whenever a   *)
(* run came back Ready.                                                    *)
(***************************************************************************)
MaxCount == 3

\* read n, count it down to zero, halt
Countdown == <<3, 12, 1001, 12, -1, 12, 1005, 12, 2, 99>>
\* read n, emit n, n-1, ..., 1, halt
CountOut == <<3, 13, 4, 13, 1001, 13, -1, 13, 1005, 13, 2, 99>>

Case(p, ins) == [p |-> p, ins |-> ins]

TermCases ==
    {Case(Countdown, <<n>>) : n \in 1..MaxCount}
    \cup {Case(CountOut, <<n>>) : n \in 1..MaxCount}
    \cup {Case(Echo2, <<x, y>>) : x \in InVals, y \in InVals}
    \cup {Case(In3, <<x, y, x>>) : x \in InVals, y \in InVals}
    \cup {Case(JmpIn, <<0>>)}
    \cup {Case(JmpIn, <<2, y>>) : y \in InVals}
    \cup {Case(RelIn, <<x, y>>) : x \in InVals, y \in InVals}
    \cup {Case(Adj2In, <<x>>) : x \in InVals}
    \cup {Case(<<99>>, <<>>)}

\* day07 has no relative write targets (its execute_cmd never offsets them),
\* so the programs that use one are programs of the later generations only
UsesRelWrite == {RelIn, Adj2In}
TermCasesOf(v) ==
    IF RelWrite(v) THEN TermCases ELSE {c \in TermCases : c.p \notin UsesRelWrite}

InitTerm ==
    /\ variant \in Variants
    /\ \E md \in ModesOf(variant), c \in TermCasesOf(variant) :
          /\ prog = c.p
          /\ cpu = SendAll(load_program([NewCpu EXCEPT !.mode = md], c.p, variant),
                           c.ins)
    /\ prev = cpu
    /\ act = "Load"
    /\ hist = NoHist /\ legacy = NoLegacy
    /\ rs = NoResume /\ net = NoNet /\ amps = NoAmps

TRun ==
    /\ cpu.state = "Ready" /\ cpu.fault = "none"
    /\ cpu' = [cpu EXCEPT !.state = "Active"]
    /\ prev' = cpu
    /\ act' = "Run"
    /\ UNCHANGED <<legacy, variant, prog, hist, rs, net, amps>>

TStep ==
    /\ cpu.state = "Active" /\ cpu.fault = "none"
    /\ cpu' = Cycle(cpu, variant)
    /\ prev' = cpu
    /\ act' = "Cycle"
    /\ UNCHANGED <<legacy, variant, prog, hist, rs, net, amps>>

NextTerm == TRun \/ TStep

\* a step of the loop in run, told by what it records in the history
CycleStep ==
    /\ cpu.state = "Active" /\ cpu.fault = "none"
    /\ act' = "Cycle" /\ prev' = cpu

\* the loop in run is sequential code and the caller's next call follows the
\* return of the last, so neither step is postponed for ever
SpecTerm ==
    InitTerm /\ [][NextTerm]_vars /\ WF_vars(TRun) /\ WF_<<act, prev>>(CycleStep)

(***************************************************************************)
(* Queue scenario: a caller and an echoing program exchange values.  The   *)
(* caller sends 1, 2, 3, ... so that every value is told apart; between    *)
(* runs it may queue input and take output in any order and number.  The   *)
(* history logs what was sent, what the program received (read off the     *)
(* tape cell the input instruction wrote), what the program emitted (the   *)
(* resolved operand of the output instruction) and what the caller took.   *)
(***************************************************************************)
MaxSent == 3

\* echo every input, for ever
EchoLoop == <<3, 9, 4, 9, 1105, 1, 0>>
\* read two inputs, emit them, for ever
EchoPairs == <<3, 13, 3, 14, 4, 13, 4, 14, 1105, 1, 0>>

FifoProgs == {EchoLoop, EchoPairs}

InitFifo ==
    /\ variant \in Variants
    /\ \E md \in ModesOf(variant) \ {Network(0)}, p \in FifoProgs :
          /\ prog = p
          /\ cpu = load_program([NewCpu EXCEPT !.mode = md], p, variant)
    /\ prev = cpu
    /\ act = "Load"
    /\ hist = NoHist /\ legacy = NoLegacy
    /\ rs = NoResume /\ net = NoNet /\ amps = NoAmps

\* io_in.push_front by the caller
FSend ==
    /\ Idle
    /\ Len(hist.sent) < MaxSent
    /\ LET x == Len(hist.sent) + 1
       IN  /\ cpu' = [cpu EXCEPT !.io_in = push_front(@, x)]
           /\ hist' = [hist EXCEPT !.sent = Append(@, x)]
    /\ prev' = cpu
    /\ act' = "SendInput"
    /\ UNCHANGED <<legacy, variant, prog, rs, net, amps>>

\* io_out.pop_back by the caller
FTake ==
    /\ Idle
    /\ cpu.io_out # <<>>
    /\ cpu' = [cpu EXCEPT !.io_out = pop_back(@)]
    /\ hist' = [hist EXCEPT !.taken = Append(@, back(cpu.io_out))]
    /\ prev' = cpu
    /\ act' = "TakeOutput"
    /\ UNCHANGED <<legacy, variant, prog, rs, net, amps>>

FRun ==
    /\ Idle
    /\ cpu' = [cpu EXCEPT !.state = "Active"]
    /\ hist' = [hist EXCEPT !.outs = 0]
    /\ prev' = cpu
    /\ act' = "Run"
    /\ UNCHANGED <<legacy, variant, prog, rs, net, amps>>

FStep ==
    /\ cpu.state = "Active" /\ cpu.fault = "none"
    /\ LET m == Cycle(cpu, variant)
           tookIn == Len(m.io_in) < Len(cpu.io_in)
           gaveOut == Len(m.io_out) > Len(cpu.io_out)
       IN  /\ cpu' = m
           /\ hist' = [hist EXCEPT
                 !.outs = @ + Len(m.io_out) - Len(cpu.io_out),
                 !.got = IF tookIn /\ m.fault = "none"
                         THEN Append(@, m.memory[AsUsize(m.reg[0])]) ELSE @,
                 !.emitted = IF gaveOut THEN Append(@, m.reg[0]) ELSE @]
    /\ prev' = cpu
    /\ act' = "Cycle"
    /\ UNCHANGED <<legacy, variant, prog, rs, net, amps>>

NextFifo == FSend \/ FTake \/ FRun \/ FStep

SpecFifo == InitFifo /\ [][NextFifo]_vars

(***************************************************************************)
(* The amplifier orchestrators of day07.  Both try every permutation of    *)
(* five phase values in the order their nested loops produce them, which   *)
(* is the lexicographic one, on the same five machines.                    *)
(***************************************************************************)
NAmps == 5
I64Min == -2147483647
AmpIdx == 0..(NAmps - 1)

SetMin(S) == CHOOSE x \in S : \A y \in S : x <= y

PrefixAll(x, ps) == [j \in 1..Len(ps) |-> <<x>> \o ps[j]]

RECURSIVE LexPerms(_)
RECURSIVE LexFrom(_, _)
LexFrom(S, R) ==
    IF R = {} THEN <<>>
    ELSE LET x == SetMin(R)
         IN  PrefixAll(x, LexPerms(S \ {x})) \o LexFrom(S, R \ {x})
LexPerms(S) == IF S = {} THEN << <<>> >> ELSE LexFrom(S, S)

PipePhases == LexPerms(0..(NAmps - 1))
FeedbackPhases == LexPerms(NAmps..(2 * NAmps - 1))

\* the pipeline example of the puzzle text
PipeExample == <<3, 15, 3, 16, 1002, 16, 10, 16, 1, 16, 15, 15, 4, 15, 99, 0, 0>>
\* emit phase + input
PipeAdd == <<3, 11, 3, 12, 1, 11, 12, 12, 4, 12, 99>>
\* emit the input less the phase
PipeSub == <<3, 15, 3, 16, 1002, 15, -1, 15, 1, 15, 16, 16, 4, 16, 99>>
\* read both inputs, emit nothing
PipeMute == <<3, 5, 3, 6, 99>>

PipeProgs == {PipeExample, PipeAdd, PipeSub, PipeMute}

\* `k` indexes the permutation being tried, `i` the machine being fed or
\* run; `got` and `emitted` log, per machine, the values its program has
\* read and written during this permutation; `exit` tells how the last
\* run_feedback_loop returned and `rounds` how many rounds it completed.
NewAmps(kind, program, md) ==
    [pc |-> "feed", kind |-> kind, program |-> program, k |-> 1, i |-> 0,
     m |-> [j \in AmpIdx |-> [NewCpu EXCEPT !.mode = md]],
     got |-> [j \in AmpIdx |-> <<>>], emitted |-> [j \in AmpIdx |-> <<>>],
     output |-> 0, max_output |-> I64Min, max_phases |-> [j \in 1..NAmps |-> 0],
     exit |-> "none", rounds |-> 0, result |-> 0]

InitPipe ==
    /\ cpu = NewCpu /\ variant = "day07" /\ prog = <<>>
    /\ prev = NewCpu /\ act = "Init" /\ hist = NoHist /\ legacy = NoLegacy
    /\ rs = NoResume /\ net = NoNet
    /\ \E p \in PipeProgs : amps = NewAmps("pipe", p, Normal)

\* a pipeline that seeds every machine with 0
PipeInput_Seed(a, i) == 0

\* the second value queued for machine i: the seed, or what the machine
\* before it left at the back of its output queue
PipeInput(a, i) == IF i = 0 THEN 0 ELSE back(a.m[i - 1].io_out)

\* get_max_output, lines 315-318 and 320-325: load machine i, queue its
\* phase and its input, enter run_cpu
PipeFeed ==
    /\ amps.kind = "pipe" /\ amps.pc = "feed"
    /\ LET i == amps.i
           phases == PipePhases[amps.k]
           m0 == load_program(amps.m[i], amps.program, "day07")
           m1 == [m0 EXCEPT !.io_in = push_front(@, phases[i + 1])]
       IN  IF i = 0
           THEN amps' = [amps EXCEPT
                   !.pc = "cycle",
                   !.got = [j \in AmpIdx |-> <<>>],
                   !.emitted = [j \in AmpIdx |-> <<>>],
                   !.m[0] = [m1 EXCEPT !.io_in = push_front(@, PipeInput(amps, 0)),
                                       !.state = "Active"]]
           ELSE IF amps.m[i - 1].io_out = <<>>
                THEN amps' = [amps EXCEPT !.pc = "dead", !.m[i] = m1]
                ELSE amps' = [amps EXCEPT
                        !.pc = "cycle",
                        !.m[i - 1].io_out = pop_back(@),
                        !.m[i] = [m1 EXCEPT
                                    !.io_in = push_front(@, PipeInput(amps, i)),
                                    !.state = "Active"]]
    /\ UNCHANGED <<legacy, coreVars, rs, net>>

\* one iteration of the loop in run_cpu on machine i
PipeStep ==
    /\ amps.kind = "pipe" /\ amps.pc = "cycle"
    /\ LET i == amps.i
           m0 == amps.m[i]
           m1 == Cycle(m0, "day07")
       IN  amps' = [amps EXCEPT
              !.m = AfterCycle(@, i, m1),
              !.got[i] = GotAfter(@, m0, m1),
              !.emitted[i] = EmittedAfter(@, m0, m1),
              !.pc = IF m1.fault # "none" THEN "dead"
                     ELSE IF m1.state = "Active" THEN "cycle"
                     ELSE IF i + 1 < NAmps THEN "feed" ELSE "collect",
              !.i = IF m1.fault = "none" /\ m1.state # "Active" /\ i + 1 < NAmps
                    THEN i + 1 ELSE i]
    /\ UNCHANGED <<legacy, coreVars, rs, net>>

\* lines 328-335, and the step of the nested loops to the next permutation
PipeCollect ==
    /\ amps.kind = "pipe" /\ amps.pc = "collect"
    /\ LET last == amps.m[NAmps - 1]
       IN  IF last.io_out = <<>>
           THEN amps' = [amps EXCEPT !.pc = "dead"]
           ELSE LET output == back(last.io_out)
                    better == output > amps.max_output
                    mx == IF better THEN output ELSE amps.max_output
                    final == amps.k = Len(PipePhases)
                IN  amps' = [amps EXCEPT
                       !.m[NAmps - 1].io_out = pop_back(@),
                       !.output = output,
                       !.max_output = mx,
                       !.max_phases = IF better THEN PipePhases[amps.k] ELSE @,
                       !.pc = IF final THEN "done" ELSE "feed",
                       !.result = IF final THEN mx ELSE @,
                       !.i = 0,
                       !.k = IF final THEN @ ELSE @ + 1]
    /\ UNCHANGED <<legacy, coreVars, rs, net>>

NextPipe == PipeFeed \/ PipeStep \/ PipeCollect

SpecPipe == InitPipe /\ [][NextPipe]_vars

(***************************************************************************)
(* get_max_feedback and run_feedback_loop.  `amps.pc` is the position:     *)
(*   feed     get_max_feedback is about to load the five machines          *)
(*   head     the `while let State::Ready = amps[4].state` test            *)
(*   pass     about to take the predecessor's output for machine i         *)
(*   cycle    inside run_cpu on machine i                                  *)
(*   latest   the round is over, `*output = *amps[4].io_out.back()`        *)
(*   collect  run_feedback_loop has returned (amps.exit tells how)         *)
(*   done     get_max_feedback has returned; dead: panicked.               *)
(***************************************************************************)
\* add the phase to the input and emit it, twice, then halt
FbLoop == <<3, 21, 3, 22, 1, 21, 22, 22, 4, 22, 1001, 23, -1, 23,
            1005, 23, 2, 99, 0, 0, 0, 0, 0, 2>>
\* emit the input once, unless the phase is 9: then halt at once
FbHaltHi == <<3, 15, 3, 16, 1007, 15, 9, 17, 1006, 17, 13, 4, 16, 99>>
\* read the phase and halt
FbMute == <<3, 3, 99>>
\* read phase and input; halt at once if the input is 5 and the phase is
\* below 9, else emit the phase and halt when run again
FbStale == <<3, 22, 3, 23, 1008, 23, 5, 24, 1007, 22, 9, 25, 2, 24, 25, 24,
             1005, 24, 21, 4, 22, 99, 0, 0, 0, 0>>
FeedbackProgs == {FbLoop, FbHaltHi, FbMute, FbStale}

InitFeedback ==
    /\ cpu = NewCpu /\ variant = "day07" /\ prog = <<>>
    /\ prev = NewCpu /\ act = "Init" /\ hist = NoHist /\ legacy = NoLegacy
    /\ rs = NoResume /\ net = NoNet
    /\ \E p \in FeedbackProgs : amps = NewAmps("feedback", p, BreakOnOutput)

\* the machine whose output machine i is fed with
Pred(i) == IF i = 0 THEN NAmps - 1 ELSE i - 1

\* get_max_feedback lines 420-423 and run_feedback_loop line 351
FbLoad ==
    /\ amps.kind = "feedback" /\ amps.pc = "feed"
    /\ LET phases == FeedbackPhases[amps.k]
           loaded == [j \in AmpIdx |->
                        [load_program(amps.m[j], amps.program, "day07")
                           EXCEPT !.io_in = <<phases[j + 1]>>]]
       IN  amps' = [amps EXCEPT
              !.pc = "head", !.i = 0, !.rounds = 0, !.exit = "none",
              !.got = [j \in AmpIdx |-> <<>>],
              !.emitted = [j \in AmpIdx |-> <<>>],
              !.m = [loaded EXCEPT ![NAmps - 1].io_out = push_front(@, 0)]]
    /\ UNCHANGED <<legacy, coreVars, rs, net>>

\* the while test of run_feedback_loop
FbHead ==
    /\ amps.kind = "feedback" /\ amps.pc = "head"
    /\ amps' = IF amps.m[NAmps - 1].state = "Ready"
               THEN [amps EXCEPT !.pc = "pass", !.i = 0]
               ELSE [amps EXCEPT !.pc = "collect", !.exit = "halted"]
    /\ UNCHANGED <<legacy, coreVars, rs, net>>

\* lines 355-360 and 368-373: take the predecessor's output or return,
\* queue it for machine i and enter run_cpu
FbPass ==
    /\ amps.kind = "feedback" /\ amps.pc = "pass"
    /\ LET i == amps.i
           q == amps.m[Pred(i)].io_out
       IN  IF q = <<>>
           THEN amps' = [amps EXCEPT !.pc = "collect", !.exit = "stall"]
           ELSE LET a1 == [amps EXCEPT !.m[Pred(i)].io_out = pop_back(@)]
                IN  amps' = [a1 EXCEPT
                        !.pc = "cycle",
                        !.m[i].io_in = push_front(@, back(q)),
                        !.m[i].state = "Active"]
    /\ UNCHANGED <<legacy, coreVars, rs, net>>

\* one iteration of the loop in run_cpu on machine i
FbStep ==
    /\ amps.kind = "feedback" /\ amps.pc = "cycle"
    /\ LET i == amps.i
           m0 == amps.m[i]
           m1 == Cycle(m0, "day07")
       IN  amps' = [amps EXCEPT
              !.m = AfterCycle(@, i, m1),
              !.got[i] = GotAfter(@, m0, m1),
              !.emitted[i] = EmittedAfter(@, m0, m1),
              !.pc = IF m1.fault # "none" THEN "dead"
                     ELSE IF m1.state = "Active" THEN "cycle"
                     ELSE IF i + 1 < NAmps THEN "pass" ELSE "latest",
              !.i = IF m1.fault = "none" /\ m1.state # "Active" /\ i + 1 < NAmps
                    THEN i + 1 ELSE i]
    /\ UNCHANGED <<legacy, coreVars, rs, net>>

\* lines 375-378: the latest output of the last machine, read in place
FbLatest ==
    /\ amps.kind = "feedback" /\ amps.pc = "latest"
    /\ LET q == amps.m[NAmps - 1].io_out
       IN  amps' = IF q = <<>>
                   THEN [amps EXCEPT !.pc = "dead"]
                   ELSE [amps EXCEPT !.pc = "head", !.output = back(q),
                                     !.rounds = @ + 1]
    /\ UNCHANGED <<legacy, coreVars, rs, net>>

\* get_max_feedback lines 427-430 and the step to the next permutation
FbCollect ==
    /\ amps.kind = "feedback" /\ amps.pc = "collect"
    /\ LET better == amps.output > amps.max_output
           mx == IF better THEN amps.output ELSE amps.max_output
           final == amps.k = Len(FeedbackPhases)
       IN  amps' = [amps EXCEPT
              !.max_output = mx,
              !.max_phases = IF better THEN FeedbackPhases[amps.k] ELSE @,
              !.pc = IF final THEN "done" ELSE "feed",
              !.result = IF final THEN mx ELSE @,
              !.k = IF final THEN @ ELSE @ + 1]
    /\ UNCHANGED <<legacy, coreVars, rs, net>>

NextFeedback == FbLoad \/ FbHead \/ FbPass \/ FbStep \/ FbLatest \/ FbCollect

SpecFeedback == InitFeedback /\ [][NextFeedback]_vars

(***************************************************************************)
(* The self-reproducing program: one machine, loaded once and run once     *)
(* with nothing queued.  SpecQuoted is the program as the specification    *)
(* quotes it, Quine the program of the puzzle text.                        *)
(***************************************************************************)
SpecQuoted == <<109, 1, 204, -1, 1101, 100, 1, 85, 8, 0, 208, -1, 203, 1, 99>>
Quine == <<109, 1, 204, -1, 1001, 100, 1, 100, 1008, 100, 16, 101,
           1006, 101, 0, 99>>
QuineProgs == {SpecQuoted, Quine}

InitQuine ==
    /\ variant \in Variants
    /\ cpu = NewCpu
    /\ prog \in QuineProgs
    /\ prev = cpu
    /\ act = "Init"
    /\ hist = NoHist /\ legacy = NoLegacy
    /\ rs = NoResume /\ net = NoNet /\ amps = NoAmps

QLoad ==
    /\ act = "Init"
    /\ cpu' = load_program(cpu, prog, variant)
    /\ prev' = cpu
    /\ act' = "Load"
    /\ UNCHANGED <<legacy, variant, prog, hist, rs, net, amps>>

QRun ==
    /\ act = "Load"
    /\ cpu' = [cpu EXCEPT !.state = "Active"]
    /\ prev' = cpu
    /\ act' = "Run"
    /\ UNCHANGED <<legacy, variant, prog, hist, rs, net, amps>>

QStep ==
    /\ act \in {"Run", "Cycle"}
    /\ cpu.state = "Active" /\ cpu.fault = "none"
    /\ cpu' = Cycle(cpu, variant)
    /\ prev' = cpu
    /\ act' = "Cycle"
    /\ hist' = [hist EXCEPT !.outs = @ + Len(cpu'.io_out) - Len(cpu.io_out)]
    /\ UNCHANGED <<legacy, variant, prog, rs, net, amps>>

NextQuine == QLoad \/ QRun \/ QStep

SpecQuine == InitQuine /\ [][NextQuine]_vars

(***************************************************************************)
(* The three orchestrators side by side: a behaviour is a behaviour of     *)
(* get_max_output, of get_max_feedback or of run_network.                  *)
(***************************************************************************)
InitOrch == InitPipe \/ InitFeedback \/ InitNet

NextOrch == NextPipe \/ NextFeedback \/ NextNet

SpecOrch == InitOrch /\ [][NextOrch]_vars

(***************************************************************************)
(* The two interpreters that precede the Cpu type.  day02's execute scans  *)
(* the tape cell by cell through a four-state machine; day05's             *)
(* execute_program decodes, fetches and executes one instruction per loop  *)
(* iteration on a tape that is exactly the program.  `legacy` holds the    *)
(* locals of the running function.                                          *)
(***************************************************************************)
\* a Vec<i64> holding the cells of a program, indexed from 0
Vec(program) == [k \in 0..(Len(program) - 1) |-> program[k + 1]]

Example02 == <<1, 9, 10, 3, 2, 3, 11, 0, 99, 30, 40, 50>>

\* two instructions and a final cell; the first may overwrite the second
\* or the final cell, address fields may point outside the tape
Family02 ==
    {<<op1, 0, 0, z, op2, 5, 6, 0, e>> :
        op1 \in {1, 2, 99, 7}, z \in {0, 4, 8, 9, -1}, op2 \in {1, 2, 99}, e \in {99, 0}}

Short02 == {<<99>>, <<99, 0>>, <<99, 0, 0>>, <<1, 0, 0>>, <<1, 0, 0, 0>>, <<2, 0, 0, 0, 99>>}

Progs02 == {Example02} \cup Family02 \cup Short02

Inputs02 == {0, 7, 8, 9, 10}

Init02 ==
    /\ cpu = NewCpu /\ variant = "day07" /\ prog = <<>>
    /\ prev = NewCpu /\ act = "Init" /\ hist = NoHist
    /\ rs = NoResume /\ net = NoNet /\ amps = NoAmps
    /\ legacy \in {[kind |-> "day02", pc |-> "new", program |-> p,
                    input1 |-> a, input2 |-> b, memory |-> Vec(<<>>),
                    i |-> 0, state |-> "Cmd", cmd |-> "Halt",
                    val1 |-> 0, val2 |-> 0, result |-> 0, exit |-> "none"] :
                   p \in Progs02, a \in Inputs02, b \in Inputs02}

\* a panic of execute: the locals stay as they were
Panic02(l) == [l EXCEPT !.pc = "dead"]

\* the Dst arm with every command adding
Store02_AddOnly(cmd, val1, val2) == val1 + val2

\* the value the Dst arm stores
Store02(cmd, val1, val2) == IF cmd = "Add" THEN val1 + val2 ELSE val1 * val2

\* lines 39-46: clone the program, patch cells 1 and 2
Enter02(l) ==
    IF Len(l.program) < 3
    THEN Panic02(l)
    ELSE [l EXCEPT !.pc = "loop",
                   !.memory = [Vec(l.program) EXCEPT ![1] = l.input1, ![2] = l.input2],
                   !.state = "Cmd", !.cmd = "Halt", !.val1 = 0, !.val2 = 0, !.i = 0]

\* one iteration of `for i in 0..memory.len()`
Iter02(l) ==
    LET num  == l.memory[l.i]
        at   == AsUsize(num)
        inb  == at \in DOMAIN l.memory
        next == [l EXCEPT !.i = @ + 1]
    IN  CASE l.state = "Cmd" ->
                 CASE num = 1  -> [next EXCEPT !.cmd = "Add", !.state = "Src1"]
                   [] num = 2  -> [next EXCEPT !.cmd = "Mult", !.state = "Src1"]
                   [] num = 99 -> [l EXCEPT !.pc = "done", !.result = l.memory[0],
                                            !.exit = "halt"]
                   [] OTHER    -> Panic02(l)
          [] l.state = "Src1" ->
                 IF inb THEN [next EXCEPT !.val1 = l.memory[at], !.state = "Src2"]
                 ELSE Panic02(l)
          [] l.state = "Src2" ->
                 IF inb THEN [next EXCEPT !.val2 = l.memory[at], !.state = "Dst"]
                 ELSE Panic02(l)
          [] l.state = "Dst" ->
                 IF l.cmd = "Halt" \/ ~inb THEN Panic02(l)
                 ELSE [next EXCEPT !.memory[at] = Store02(l.cmd, l.val1, l.val2),
                                   !.state = "Cmd"]

Others02 == UNCHANGED <<cpu, variant, prog, prev, hist, rs, net, amps>>

Exec02Enter ==
    /\ legacy.kind = "day02" /\ legacy.pc = "new"
    /\ legacy' = Enter02(legacy)
    /\ act' = "Enter02" /\ Others02

Exec02Iter ==
    /\ legacy.kind = "day02" /\ legacy.pc = "loop"
    /\ legacy.i < Len(legacy.program)
    /\ legacy' = Iter02(legacy)
    /\ act' = "Iter02" /\ Others02

\* line 79: the scan ran off the end of the tape
Exec02End ==
    /\ legacy.kind = "day02" /\ legacy.pc = "loop"
    /\ legacy.i >= Len(legacy.program)
    /\ legacy' = [legacy EXCEPT !.pc = "done", !.result = legacy.memory[0],
                                !.exit = "end"]
    /\ act' = "End02" /\ Others02

Next02 == Exec02Enter \/ Exec02Iter \/ Exec02End

(***************************************************************************)
(* day05: execute_program.                                                 *)
(***************************************************************************)
Case2 == <<1002, 4, 3, 4, 33>>

Progs05 ==
    {Case2,
     <<3, 0, 4, 0, 99>>,
     <<1101, 100, -1, 4, 0>>,
     <<3, 3, 1105, -1, 9, 1101, 0, 0, 12, 4, 12, 99, 1>>,
     <<3, 9, 8, 9, 10, 9, 4, 9, 99, -1, 8>>,
     <<1107, 3, 8, 7, 104, 5, 1006, 0, 99>>,
     <<1, 0, 0, 9, 99>>,
     <<4, 7, 99>>,
     <<1105, 1, -1>>,
     <<9, 0, 99>>}

Inputs05 == {0, 7, 8}

Init05 ==
    /\ cpu = NewCpu /\ variant = "day07" /\ prog = <<>>
    /\ prev = NewCpu /\ act = "Init" /\ hist = NoHist
    /\ rs = NoResume /\ net = NoNet /\ amps = NoAmps
    /\ legacy \in {[kind |-> "day05", pc |-> "new", program |-> p,
                    memory |-> Vec(<<>>), ip |-> 0,
                    reg |-> [i \in RegIdx |-> 0], mode |-> [i \in RegIdx |-> 0],
                    printed |-> <<>>, result |-> 0, cycles |-> 0] :
                   p \in Progs05}

\* day05's decode table has no opcode 9
get_cmd05(instruction) ==
    LET opcode == Opcode(instruction)
    IN  CASE opcode = 1  -> Cmd("Add", 3, TRUE)
          [] opcode = 2  -> Cmd("Mul", 3, TRUE)
          [] opcode = 3  -> Cmd("In", 1, TRUE)
          [] opcode = 4  -> Cmd("Out", 1, FALSE)
          [] opcode = 5  -> Cmd("Jnz", 2, FALSE)
          [] opcode = 6  -> Cmd("Jz", 2, FALSE)
          [] opcode = 7  -> Cmd("Lt", 3, TRUE)
          [] opcode = 8  -> Cmd("Cmp", 3, TRUE)
          [] opcode = 99 -> Cmd("Hlt", 0, FALSE)
          [] OTHER       -> NoCmd

Panic05(l) == [l EXCEPT !.pc = "dead"]

\* lines 191-196: reg[i] = memory[ip]; ip += 1, for each operand
RECURSIVE Fetch05(_, _, _)
Fetch05(l, i, n) ==
    IF i >= n \/ l.pc = "dead" THEN l
    ELSE IF l.ip \notin DOMAIN l.memory THEN Panic05(l)
    ELSE Fetch05([l EXCEPT !.reg[i] = l.memory[l.ip], !.ip = @ + 1], i + 1, n)

\* an operand load that dereferences whatever the mode digit is
UsesCell_Always(mode) == TRUE

\* line 132: only mode 0 dereferences
UsesCell(mode) == mode = 0

\* lines 130-136: replace position-mode operands by the cells they name
RECURSIVE Resolve05(_, _, _)
Resolve05(l, i, n) ==
    IF i >= n \/ l.pc = "dead" THEN l
    ELSE IF ~UsesCell(l.mode[i]) THEN Resolve05(l, i + 1, n)
    ELSE IF AsUsize(l.reg[i]) \notin DOMAIN l.memory THEN Panic05(l)
    ELSE Resolve05([l EXCEPT !.reg[i] = l.memory[AsUsize(l.reg[i])]], i + 1, n)

\* memory[at as usize] = v
Store05(l, at, v) ==
    IF AsUsize(at) \in DOMAIN l.memory
    THEN [l EXCEPT !.memory[AsUsize(at)] = v]
    ELSE Panic05(l)

\* lines 138-168
Op05(l, op, input) ==
    CASE op = "Add" -> Store05(l, l.reg[2], l.reg[0] + l.reg[1])
      [] op = "Mul" -> Store05(l, l.reg[2], l.reg[0] * l.reg[1])
      [] op = "In"  -> Store05(l, l.reg[0], input)
      [] op = "Out" -> [l EXCEPT !.printed = Append(@, l.reg[0])]
      [] op = "Jnz" -> IF l.reg[0] # 0 THEN [l EXCEPT !.ip = AsUsize(l.reg[1])] ELSE l
      [] op = "Jz"  -> IF l.reg[0] = 0 THEN [l EXCEPT !.ip = AsUsize(l.reg[1])] ELSE l
      [] op = "Lt"  -> Store05(l, l.reg[2], IF l.reg[0] < l.reg[1] THEN 1 ELSE 0)
      [] op = "Cmp" -> Store05(l, l.reg[2], IF l.reg[0] = l.reg[1] THEN 1 ELSE 0)
      [] OTHER      -> l

execute_cmd05(l, cmd, input) ==
    LET boundary == IF cmd.writes THEN 1 ELSE 0
        l1 == Resolve05(l, 0, cmd.n_operands - boundary)
    IN  IF l1.pc = "dead" THEN l1
        ELSE [Op05(l1, cmd.op, input) EXCEPT !.cycles = @ + 1]

\* one iteration of execute_program's loop
Iter05(l, input) ==
    IF l.ip \notin DOMAIN l.memory THEN Panic05(l)
    ELSE LET instruction == l.memory[l.ip]
             cmd == get_cmd05(instruction)
         IN  IF cmd = NoCmd THEN Panic05(l)
             ELSE LET l1 == [l EXCEPT !.mode = ModeLoop05(l.mode, RustDiv(instruction, 100),
                                                          0, cmd.n_operands)]
                  IN  IF cmd.op = "Hlt"
                      THEN [l1 EXCEPT !.pc = "done", !.result = l.memory[0]]
                      ELSE LET l2 == Fetch05([l1 EXCEPT !.ip = @ + 1], 0, cmd.n_operands)
                           IN  IF l2.pc = "dead" THEN l2
                               ELSE execute_cmd05(l2, cmd, input)

Exec05Enter ==
    /\ legacy.kind = "day05" /\ legacy.pc = "new"
    /\ legacy' = [legacy EXCEPT !.pc = "loop", !.memory = Vec(legacy.program)]
    /\ act' = "Enter05" /\ Others02

Exec05Iter ==
    /\ legacy.kind = "day05" /\ legacy.pc = "loop"
    /\ \E input \in Inputs05 : legacy' = Iter05(legacy, input)
    /\ act' = "Iter05" /\ Others02

Next05 == Exec05Enter \/ Exec05Iter

InitEarly == Init02 \/ Init05

NextEarly == Next02 \/ Next05

SpecEarly == InitEarly /\ [][NextEarly]_vars

(***************************************************************************)
(* get_program (parse_ops in day02): the program text is trimmed, split at *)
(* every comma and each piece parsed as an i64; a piece that does not      *)
(* parse panics.  A text is a sequence of characters.                      *)
(***************************************************************************)
MaxText == 4

Digits == {"1", "2"}
Blank == {" "}
Chars == Digits \cup Blank \cup {"-", ",", "x"}

Texts == UNION {[1..n -> Chars] : n \in 0..MaxText}

\* str::trim: leading and trailing white space removed
RECURSIVE TrimStart(_)
TrimStart(t) == IF t # <<>> /\ Head(t) \in Blank THEN TrimStart(Tail(t)) ELSE t

RECURSIVE TrimEnd(_)
TrimEnd(t) ==
    IF t # <<>> /\ t[Len(t)] \in Blank THEN TrimEnd(SubSeq(t, 1, Len(t) - 1)) ELSE t

Trim(t) == TrimEnd(TrimStart(t))

\* str::split(","): the pieces between the commas, one more than there
\* are commas, so the empty text yields the one piece ""
RECURSIVE SplitFrom(_, _, _)
SplitFrom(t, piece, pieces) ==
    IF t = <<>> THEN Append(pieces, piece)
    ELSE IF Head(t) = "," THEN SplitFrom(Tail(t), <<>>, Append(pieces, piece))
    ELSE SplitFrom(Tail(t), Append(piece, Head(t)), pieces)

Split(t) == SplitFrom(t, <<>>, <<>>)

DigitVal(c) == IF c = "1" THEN 1 ELSE 2

RECURSIVE Decimal(_, _)
Decimal(ds, acc) ==
    IF ds = <<>> THEN acc ELSE Decimal(Tail(ds), 10 * acc + DigitVal(Head(ds)))

\* i64::from_str: an optional sign, then one or more digits, nothing else
ParseI64(tok) ==
    LET neg  == tok # <<>> /\ Head(tok) = "-"
        body == IF neg THEN Tail(tok) ELSE tok
    IN  IF body # <<>> /\ \A k \in 1..Len(body) : body[k] \in Digits
        THEN [ok |-> TRUE, v |-> IF neg THEN -Decimal(body, 0) ELSE Decimal(body, 0)]
        ELSE [ok |-> FALSE, v |-> 0]

\* the for loop: push each parsed piece, panic on the first that fails
RECURSIVE PushAll(_, _)
PushAll(pieces, program) ==
    IF pieces = <<>> THEN [ok |-> TRUE, program |-> program]
    ELSE LET r == ParseI64(Head(pieces))
         IN  IF r.ok THEN PushAll(Tail(pieces), Append(program, r.v))
             ELSE [ok |-> FALSE, program |-> program]

get_program(input) == PushAll(Split(Trim(input)), <<>>)

InitLoader ==
    /\ cpu = NewCpu /\ variant = "day23" /\ prog = <<>>
    /\ prev = NewCpu /\ act = "Init" /\ hist = NoHist
    /\ rs = NoResume /\ net = NoNet /\ amps = NoAmps
    /\ legacy \in {[kind |-> "loader", pc |-> "new", input |-> t, program |-> <<>>] :
                   t \in Texts}

LoadText ==
    /\ legacy.kind = "loader" /\ legacy.pc = "new"
    /\ LET r == get_program(legacy.input)
       IN  legacy' = [legacy EXCEPT !.pc = IF r.ok THEN "done" ELSE "dead",
                                    !.program = r.program]
    /\ act' = "get_program" /\ Others02

SpecLoader == InitLoader /\ [][LoadText]_vars

(***************************************************************************)
(* run as a loop with its exit test: the caller calls run on a loaded      *)
(* machine whatever its state, run sets Active and repeats the cycle until *)
(* the test after a cycle finds the state not Active.  `legacy.pc` is the  *)
(* position of control: with the caller, or inside the loop of run;        *)
(* `legacy.entry` is the machine as the last call of run found it and      *)
(* `legacy.cycles` counts the cycles of that call up to MaxCycles.         *)
(***************************************************************************)
MaxCalls == 3
MaxCycles == 2

InitRun ==
    /\ variant \in Variants
    /\ \E md \in ModesOf(variant), p \in Programs :
          /\ prog = p
          /\ cpu = load_program([NewCpu EXCEPT !.mode = md], p, variant)
    /\ prev = cpu
    /\ act = "Load"
    /\ hist = NoHist
    /\ rs = NoResume /\ net = NoNet /\ amps = NoAmps
    /\ legacy = [kind |-> "run", pc |-> "caller", calls |-> 0,
                 entry |-> cpu, cycles |-> 0]

\* a loop that goes on until the machine halts
Continues_UntilHalt(m) == m.state # "Halted"

\* `let State::Active = self.state else { break }`
Continues(m) == m.state = "Active"

RSend ==
    /\ legacy.kind = "run" /\ legacy.pc = "caller"
    /\ cpu.fault = "none"
    /\ prog \in InputProgs
    /\ Len(cpu.io_in) < MaxQueue
    /\ \E x \in InVals : cpu' = [cpu EXCEPT !.io_in = push_front(@, x)]
    /\ prev' = cpu
    /\ act' = "SendInput"
    /\ UNCHANGED <<legacy, variant, prog, hist, rs, net, amps>>

\* the first statement of run
RCall ==
    /\ legacy.kind = "run" /\ legacy.pc = "caller"
    /\ cpu.fault = "none"
    /\ legacy.calls < MaxCalls
    /\ cpu' = [cpu EXCEPT !.state = "Active"]
    /\ legacy' = [legacy EXCEPT !.pc = "loop", !.calls = @ + 1,
                                !.entry = cpu, !.cycles = 0]
    /\ prev' = cpu
    /\ act' = "Run"
    /\ UNCHANGED <<variant, prog, hist, rs, net, amps>>

\* one iteration of the loop: the cycle, then the exit test
RIter ==
    /\ legacy.kind = "run" /\ legacy.pc = "loop"
    /\ cpu.bp <= MaxBp /\ -cpu.bp <= MaxBp
    /\ Len(cpu.io_out) < MaxOut
    /\ cpu' = Cycle(cpu, variant)
    /\ legacy' = [legacy EXCEPT !.pc = IF cpu'.fault # "none" THEN "dead"
                                       ELSE IF Continues(cpu') THEN "loop"
                                       ELSE "caller",
                                !.cycles = IF @ < MaxCycles THEN @ + 1 ELSE @]
    /\ prev' = cpu
    /\ act' = "Cycle"
    /\ UNCHANGED <<variant, prog, hist, rs, net, amps>>

NextRun == RSend \/ RCall \/ RIter

SpecRun == InitRun /\ [][NextRun]_vars

(***************************************************************************)
(* Two generations side by side: the same program and input sequence are   *)
(* given to a day09 machine (`old`) and to a day11 or day23 machine in     *)
(* normal mode (`new`); each is run once.  run is the loop of cycles       *)
(* while the machine is Active.                                            *)
(***************************************************************************)
EquivCases ==
    {Case(p, ins) : p \in Programs \ InputProgs, ins \in {<<>>}}
    \cup {Case(p, ins) : p \in InputProgs, ins \in InSeqs}
    \cup {Case(Countdown, <<n>>) : n \in 1..MaxCount}
    \cup {Case(CountOut, <<n>>) : n \in 1..MaxCount}
    \cup {Case(Quine, <<>>)}

InitEquiv ==
    /\ cpu = NewCpu /\ variant = "day09" /\ prog = <<>>
    /\ prev = NewCpu /\ act = "Init" /\ hist = NoHist /\ legacy = NoLegacy
    /\ net = NoNet /\ amps = NoAmps
    /\ \E v \in {"day11", "day23"}, c \in EquivCases :
          rs = [phase |-> "pair", v |-> v, p |-> c.p, ins |-> c.ins,
                old |-> NewCpu, new |-> NewCpu]

\* load both machines, queue the inputs, enter run on the day09 machine
EqLoad ==
    /\ rs.phase = "pair"
    /\ rs' = [rs EXCEPT
                !.phase = "old",
                !.old = [SendAll(load_program(rs.old, rs.p, "day09"), rs.ins)
                            EXCEPT !.state = "Active"],
                !.new = SendAll(load_program(rs.new, rs.p, rs.v), rs.ins)]
    /\ UNCHANGED <<legacy, coreVars, net, amps>>

EqStepOld ==
    /\ rs.phase = "old"
    /\ Runnable(rs.old)
    /\ rs' = [rs EXCEPT !.old = Cycle(rs.old, "day09")]
    /\ UNCHANGED <<legacy, coreVars, net, amps>>

\* the day09 run is over: enter run on the other machine
EqRunNew ==
    /\ rs.phase = "old"
    /\ Stopped(rs.old)
    /\ rs' = [rs EXCEPT !.phase = "new", !.new.state = "Active"]
    /\ UNCHANGED <<legacy, coreVars, net, amps>>

EqStepNew ==
    /\ rs.phase = "new"
    /\ Runnable(rs.new)
    /\ rs' = [rs EXCEPT !.new = Cycle(rs.new, rs.v)]
    /\ UNCHANGED <<legacy, coreVars, net, amps>>

NextEquiv == EqLoad \/ EqStepOld \/ EqRunNew \/ EqStepNew

SpecEquiv == InitEquiv /\ [][NextEquiv]_vars

(***************************************************************************)
(* Vocabulary of the properties.  `prev` is the machine as the last action *)
(* found it and `act` names that action, so a property of one cycle reads  *)
(* "act = Cycle => cpu is related to prev".  The instruction, its digits   *)
(* and its operands are taken from the tape of `prev` by plain arithmetic, *)
(* not through the decoder under test.                                     *)
(***************************************************************************)
Cycled == act = "Cycle" /\ prev.ip \in Addr
PInstr == prev.memory[prev.ip]
POpc == PInstr % 100
TableOps == {1, 2, 3, 4, 5, 6, 7, 8, 9, 99}
ValidInstr == PInstr >= 0 /\ POpc \in TableOps

TableN(oc) ==
    CASE oc \in {1, 2, 7, 8} -> 3
      [] oc \in {5, 6}       -> 2
      [] oc \in {3, 4, 9}    -> 1
      [] OTHER               -> 0

TableW(oc) == oc \in {1, 2, 3, 7, 8}

TableName(oc) ==
    CASE oc = 1 -> "Add" [] oc = 2 -> "Mul" [] oc = 3 -> "In" [] oc = 4 -> "Out"
      [] oc = 5 -> "Jnz" [] oc = 6 -> "Jz" [] oc = 7 -> "Lt" [] oc = 8 -> "Cmp"
      [] oc = 9 -> "AdjBp" [] OTHER -> "Hlt"

Pow10(k) == CASE k = 0 -> 1 [] k = 1 -> 10 [] k = 2 -> 100 [] OTHER -> 1000

\* the mode digit of operand i of a non-negative instruction word
Digit(w, i) == (w \div (100 * Pow10(i))) % 10
\* the raw operand i of the instruction prev points at
Raw(i) == prev.memory[prev.ip + i + 1]
OperandsOnTape == prev.ip + TableN(POpc) < MemCap

\* the address a position- or relative-mode operand names
SpecAddr(i) == IF Digit(PInstr, i) = 2 THEN prev.bp + Raw(i) ELSE Raw(i)
\* operand i read as a value is v
IsValue(i, v) ==
    IF Digit(PInstr, i) = 1 THEN v = Raw(i)
    ELSE SpecAddr(i) \in Addr /\ v = prev.memory[SpecAddr(i)]

\* the blocking input instruction met an empty queue: the arm returns early
InputStarved ==
    POpc = 3 /\ prev.io_in = <<>> /\ prev.mode.kind # "Network"

SameQueues == cpu.io_in = prev.io_in /\ cpu.io_out = prev.io_out
SameTape == cpu.memory = prev.memory
TapeOnlyAt(a) == \A c \in Addr : c # a => cpu.memory[c] = prev.memory[c]

(***************************************************************************)
(* C1.  In the blocking-input machine (day11, day23, not in network mode)  *)
(* an input instruction that finds the input queue empty changes the       *)
(* lifecycle state to Ready and nothing else: pointer, base, tape and both *)
(* queues are as before, the run has returned, and the cell the pointer    *)
(* names is still that input instruction.                                  *)
(***************************************************************************)
C1_InputSuspendFrame ==
    (/\ Cycled /\ BlockingIn(variant) /\ ValidInstr /\ InputStarved
     /\ Digit(PInstr, 0) \in ModeDigits /\ OperandsOnTape)
    => /\ cpu.state = "Ready"
       /\ cpu.fault = "none"
       /\ cpu.ip = prev.ip
       /\ cpu.bp = prev.bp
       /\ SameTape
       /\ SameQueues
       /\ cpu.memory[cpu.ip] = PInstr

C1_Witness ==
    /\ Cycled /\ variant = "day23" /\ prev.mode = Normal
    /\ ValidInstr /\ InputStarved
    /\ PInstr = 203 /\ prev.bp = BaseAdj
    /\ cpu.state = "Ready" /\ cpu.ip = prev.ip

(***************************************************************************)
(* C3.  After load_program(p) the machine has pointer 0, base 0, empty     *)
(* queues, the tape p followed by zeros and state Ready, whatever ran on   *)
(* it before.                                                              *)
(***************************************************************************)
C3_LoadResets ==
    act = "Load"
    => /\ cpu.ip = 0
       /\ cpu.bp = 0
       /\ cpu.io_in = <<>> /\ cpu.io_out = <<>>
       /\ cpu.state = "Ready"
       /\ \A a \in Addr :
             cpu.memory[a] = IF a < Len(prog) THEN prog[a + 1] ELSE 0

(***************************************************************************)
(* C5.  On a cycle that completes, every operand that is not the final     *)
(* operand of a write instruction is resolved to a value (position:        *)
(* tape[raw], immediate: raw, relative: tape[base + raw]) and the final    *)
(* operand of a write instruction (1, 2, 3, 7, 8) to an address that is    *)
(* not dereferenced (position: raw, relative: base + raw), which is the    *)
(* only cell the cycle may change.                                         *)
(***************************************************************************)
OperandResolutionOn(vs) ==
    (/\ Cycled /\ variant \in vs /\ cpu.fault = "none"
     /\ ValidInstr /\ ~InputStarved)
    => LET n == TableN(POpc)
           w == TableW(POpc)
       IN  /\ OperandsOnTape
           /\ \A i \in 0..(n - 1) :
                 IF w /\ i = n - 1
                 THEN Digit(PInstr, i) \in {0, 2}
                      => /\ cpu.reg[i] = SpecAddr(i)
                         /\ SpecAddr(i) \in Addr
                         /\ TapeOnlyAt(SpecAddr(i))
                 ELSE IsValue(i, cpu.reg[i])
           /\ ~w => SameTape

C5_OperandResolution == OperandResolutionOn(Variants)

(***************************************************************************)
(* C6.  The decoder takes opcode = instruction mod 100 and yields exactly  *)
(* the table's operand count and write flag; every other instruction word, *)
(* every negative one included, yields no command and the run faults with  *)
(* InvalidOpcode, leaving the machine as it was.                           *)
(***************************************************************************)
C6_DecodeTable ==
    Cycled
    => IF ValidInstr
       THEN /\ get_cmd(PInstr) = Cmd(TableName(POpc), TableN(POpc), TableW(POpc))
            /\ cpu.fault # "InvalidOpcode"
       ELSE /\ get_cmd(PInstr) = NoCmd
            /\ cpu = [prev EXCEPT !.fault = "InvalidOpcode"]

C6_Witness ==
    /\ Cycled /\ PInstr = -99 /\ cpu.fault = "InvalidOpcode"

(***************************************************************************)
(* C7.  The mode of operand i of an instruction with n operands is the     *)
(* i-th least significant decimal digit of instruction / 100 (0 position,  *)
(* 1 immediate, 2 relative, an absent digit position), and the cycle's     *)
(* outcome does not depend on the modes an earlier instruction left in     *)
(* the bank.  The day05 decoder stores the same digits.                    *)
(***************************************************************************)
ModeName(d) == CASE d = 0 -> "Pos" [] d = 1 -> "Imm" [] OTHER -> "Rel"
Banks == {[i \in RegIdx |-> md] : md \in {"Pos", "Imm", "Rel"}}

C7_ModeDigits ==
    (Cycled /\ ValidInstr)
    => LET n == TableN(POpc)
       IN  /\ (\A i \in 0..(n - 1) : Digit(PInstr, i) \in ModeDigits)
              => /\ cpu.fault # "BadMode"
                 /\ \A i \in 0..(n - 1) :
                       /\ cpu.reg_mode[i] = ModeName(Digit(PInstr, i))
                       /\ get_mode05(PInstr, n)[i] = Digit(PInstr, i)
           /\ \A bank \in Banks :
                 LET other == Cycle([prev EXCEPT !.reg_mode = bank], variant)
                 IN  [other EXCEPT !.reg_mode = cpu.reg_mode] = cpu

C7_Witness ==
    /\ Cycled /\ PInstr = 1001 /\ cpu.fault = "none"
    /\ prev.reg_mode[0] = "Imm" /\ cpu.reg_mode[0] = "Pos"
    /\ cpu.reg_mode[1] = "Imm" /\ cpu.reg_mode[2] = "Pos"

(***************************************************************************)
(* C8.  Opcodes 1, 2, 7 and 8 store a + b, a * b, (a < b ? 1 : 0) and      *)
(* (a = b ? 1 : 0) at the resolved target address, change no other cell,   *)
(* leave queues, base and state alone and advance the pointer by 4, also   *)
(* when the target is one of the instruction's own cells.                  *)
(***************************************************************************)
Resolvable(i) == Digit(PInstr, i) = 1 \/ SpecAddr(i) \in Addr
SpecVal(i) == IF Digit(PInstr, i) = 1 THEN Raw(i) ELSE prev.memory[SpecAddr(i)]

SpecResult(oc, a, b) ==
    CASE oc = 1 -> a + b
      [] oc = 2 -> a * b
      [] oc = 7 -> (IF a < b THEN 1 ELSE 0)
      [] OTHER  -> (IF a = b THEN 1 ELSE 0)

C8_ArithmeticStore ==
    (/\ Cycled /\ variant # "day07" /\ cpu.fault = "none"
     /\ ValidInstr /\ POpc \in {1, 2, 7, 8} /\ Digit(PInstr, 2) \in {0, 2})
    => /\ Resolvable(0) /\ Resolvable(1) /\ SpecAddr(2) \in Addr
       /\ cpu.memory = [prev.memory EXCEPT
                           ![SpecAddr(2)] = SpecResult(POpc, SpecVal(0), SpecVal(1))]
       /\ SameQueues
       /\ cpu.bp = prev.bp
       /\ cpu.state = prev.state
       /\ cpu.ip = prev.ip + 4

C8_Witness ==
    /\ Cycled /\ variant = "day23" /\ cpu.fault = "none"
    /\ PInstr = 22201 /\ SpecAddr(2) = prev.ip
    /\ cpu.memory[prev.ip] = 2 * BaseAdj /\ cpu.ip = prev.ip + 4

(***************************************************************************)
(* C9.  Opcodes 5 and 6: when the condition on the first operand holds the *)
(* pointer after the cycle is the second operand (as an address, with no   *)
(* advance added), otherwise the old pointer plus 3; in the variants that  *)
(* advance before executing and in those that advance after.               *)
(***************************************************************************)
JumpTaken == IF POpc = 5 THEN SpecVal(0) # 0 ELSE SpecVal(0) = 0

C9_Jumps ==
    (Cycled /\ cpu.fault = "none" /\ ValidInstr /\ POpc \in {5, 6})
    => /\ Resolvable(0) /\ Resolvable(1)
       /\ cpu.ip = IF JumpTaken THEN AsUsize(SpecVal(1)) ELSE prev.ip + 3
       /\ JumpTaken /\ SpecVal(1) >= 0 => cpu.ip = SpecVal(1)
       /\ SameTape /\ SameQueues
       /\ cpu.bp = prev.bp /\ cpu.state = prev.state

C9_Witness ==
    /\ Cycled /\ cpu.fault = "none" /\ variant \in {"day09", "day23"}
    /\ PInstr = 1006 /\ JumpTaken /\ cpu.ip = SpecVal(1)
    /\ cpu.ip # prev.ip + 3

(***************************************************************************)
(* C10.  Opcode 9 adds its operand to the relative base, advances the      *)
(* pointer by 2 and changes nothing else; no other opcode, no suspension,  *)
(* no resumption and no queue transfer changes the base; load_program      *)
(* (day09 and later) resets it.                                            *)
(***************************************************************************)
C10_RelativeBase ==
    /\ (Cycled /\ cpu.fault = "none" /\ ValidInstr /\ POpc = 9)
       => /\ Resolvable(0)
          /\ cpu.bp = prev.bp + SpecVal(0)
          /\ cpu.ip = prev.ip + 2
          /\ SameTape /\ SameQueues
          /\ cpu.state = prev.state /\ cpu.mode = prev.mode
    /\ (act = "Cycle" /\ ~(Cycled /\ ValidInstr /\ POpc = 9)) => cpu.bp = prev.bp
    /\ act \in {"Run", "SendInput", "TakeOutput"} => cpu.bp = prev.bp
    /\ (act = "Load" /\ variant # "day07") => cpu.bp = 0

C10_Witness ==
    /\ act = "Run" /\ variant = "day23" /\ prev.state = "Ready"
    /\ cpu.bp = BaseAdj + 3 /\ cpu.io_in # <<>>
    /\ cpu.ip \in Addr /\ cpu.memory[cpu.ip] % 100 = 3

(***************************************************************************)
(* C2.  Resume equivalence: a machine run with a prefix of the input until *)
(* it suspends on the empty queue, then given the rest and run again, ends *)
(* with the same tape, pointer, base, output queue and lifecycle state     *)
(* (and the same fault, if any) as a machine run once with the whole       *)
(* input queued from the start.                                            *)
(***************************************************************************)
BothDone == rs.phase = "whole" /\ Stopped(rs.whole)

C2_ResumeEquivalence ==
    BothDone
    => /\ rs.split.memory = rs.whole.memory
       /\ rs.split.ip = rs.whole.ip
       /\ rs.split.bp = rs.whole.bp
       /\ rs.split.io_out = rs.whole.io_out
       /\ rs.split.io_in = rs.whole.io_in
       /\ rs.split.state = rs.whole.state
       /\ rs.split.fault = rs.whole.fault

C2_Witness ==
    /\ BothDone
    /\ rs.p = Echo2 /\ Len(rs.ins) = 2 /\ rs.k = 1 /\ rs.ins[1] # rs.ins[2]
    /\ rs.whole.state = "Halted"
    /\ rs.whole.io_out = <<rs.ins[2], rs.ins[1]>>

(***************************************************************************)
(* C4.  The only lifecycle changes of a machine are Halted -> Ready,       *)
(* Ready -> Active, Active -> Ready and Active -> Halted; in particular    *)
(* the orchestrator never has run take a machine from Halted to Active.    *)
(***************************************************************************)
LegalChanges ==
    {<<"Halted", "Ready">>, <<"Ready", "Active">>,
     <<"Active", "Ready">>, <<"Active", "Halted">>}

C4_LegalTransitions ==
    [][net.pc # "new" =>
         \A j \in Nics :
            net.nics[j].state # net'.nics[j].state
            => <<net.nics[j].state, net'.nics[j].state>> \in LegalChanges]_vars

(***************************************************************************)
(* C11.  In break-on-output mode a run appends at most one value to the    *)
(* output queue: the output instruction appends the resolved value, leaves *)
(* the machine Ready with the pointer on the next instruction, and no      *)
(* further cycle of that run follows; in normal mode an output instruction *)
(* leaves the machine Active.                                              *)
(***************************************************************************)
OutputCycle ==
    Cycled /\ cpu.fault = "none" /\ ValidInstr /\ POpc = 4

C11_BreakOnOutput ==
    /\ cpu.mode.kind = "BreakOnOutput"
       => /\ hist.outs <= 1
          /\ hist.outs = 1 => cpu.state # "Active"
    /\ OutputCycle
       => /\ Resolvable(0)
          /\ cpu.io_out = <<SpecVal(0)>> \o prev.io_out
          /\ cpu.ip = prev.ip + 2
          /\ cpu.state = IF prev.mode.kind = "Normal" THEN "Active"
                         ELSE IF prev.mode.kind = "BreakOnOutput" THEN "Ready"
                         ELSE cpu.state

C11_Witness ==
    /\ OutputCycle /\ variant = "day07" /\ prev.mode = BreakOnOutput
    /\ prog = Echo2 /\ Len(prev.io_out) = 1 /\ Len(cpu.io_out) = 2
    /\ hist.outs = 1 /\ cpu.state = "Ready" /\ cpu.ip = 8

(***************************************************************************)
(* C12.  A program with bounded loops that ends in opcode 99, given all    *)
(* the input it reads, is run to Halted: in normal mode the first run      *)
(* never comes back Ready, and the machine eventually is Halted (without a *)
(* fault) and stays so.                                                    *)
(***************************************************************************)
C12_RunTerminates ==
    /\ [](cpu.mode.kind = "Normal" /\ act # "Load" => cpu.state # "Ready")
    /\ <>[](cpu.state = "Halted" /\ cpu.fault = "none")

C12_Witness ==
    /\ prog = Countdown /\ cpu.mode = Normal /\ variant = "day23"
    /\ act = "Cycle" /\ cpu.state = "Halted" /\ cpu.fault = "none"
    /\ cpu.ip = 9 /\ cpu.memory[12] = 0 /\ cpu.io_in = <<>>
    /\ prev.memory[1] = 12

(***************************************************************************)
(* C13.  Both queues are first-in first-out: whatever the interleaving of  *)
(* the caller's sends and takes with the program's reads and writes, the   *)
(* values the program has received are the first values sent, in the order *)
(* they were sent, and the values the caller has taken are the first       *)
(* values emitted, in the order they were emitted.                         *)
(***************************************************************************)
IsPrefix(a, b) == Len(a) <= Len(b) /\ \A i \in 1..Len(a) : a[i] = b[i]

C13_QueuesFifo ==
    /\ IsPrefix(hist.got, hist.sent)
    /\ IsPrefix(hist.taken, hist.emitted)
    /\ Len(cpu.io_in) = Len(hist.sent) - Len(hist.got)
    /\ Len(cpu.io_out) = Len(hist.emitted) - Len(hist.taken)

C13_Witness ==
    /\ variant = "day23" /\ prog = EchoPairs
    /\ hist.sent = <<1, 2, 3>> /\ hist.got = <<1, 2>>
    /\ hist.emitted = <<1, 2>> /\ hist.taken = <<1>>
    /\ Len(prev.io_out) = 2 /\ act = "TakeOutput"

(***************************************************************************)
(* C14.  In get_max_output machine i reads its phase first and then the    *)
(* seed 0 (i = 0) or what machine i-1 emitted (i > 0); every machine       *)
(* before the one being fed or run is Halted; the value collected for a    *)
(* permutation is what the last machine emitted; and for the example       *)
(* program the permutation [4,3,2,1,0] yields 43210, which is also the     *)
(* search's result.                                                        *)
(***************************************************************************)
PipeLogsCurrent == amps.pc \in {"cycle", "collect"} \/ amps.i > 0

PipeCollected ==
    amps.pc = "done" \/ (amps.pc = "feed" /\ amps.i = 0 /\ amps.k > 1)

Returned == amps.kind = "feedback" /\ amps.pc = "collect"

C15_FeedbackExit ==
    Returned
    => /\ amps.exit = "halted"
       /\ amps.m[NAmps - 1].state = "Halted"
       /\ amps.emitted[NAmps - 1] # <<>>
       /\ amps.output = amps.emitted[NAmps - 1][Len(amps.emitted[NAmps - 1])]

(***************************************************************************)
(* C16.  When the loop finds the predecessor's output queue empty it       *)
(* aborts: no machine is touched by that step, the loop returns at once,   *)
(* and the aborted run is not taken for a result, i.e. it neither raises   *)
(* the maximum nor ends the search with a value.                           *)
(***************************************************************************)
C16_StallAborts ==
    [][/\ (amps.kind = "feedback" /\ amps.pc = "pass"
           /\ amps.m[Pred(amps.i)].io_out = <<>>)
          => (amps'.m = amps.m /\ amps'.pc = "collect")
       /\ (Returned /\ amps.exit = "stall")
          => (amps'.max_output = amps.max_output /\ amps'.pc # "done")]_vars

(***************************************************************************)
(* C17.  In network mode an input instruction that finds the input queue   *)
(* empty stores -1 at the resolved target, advances the pointer by 2 and   *)
(* leaves the machine Ready; with a value queued it takes the oldest       *)
(* value, stores it, advances by 2 and the machine stays Active.  Nothing  *)
(* else changes.                                                           *)
(***************************************************************************)
NetworkInput ==
    /\ Cycled /\ variant = "day23" /\ prev.mode.kind = "Network"
    /\ cpu.fault = "none" /\ ValidInstr /\ POpc = 3
    /\ Digit(PInstr, 0) \in {0, 2}

C17_NetworkPoll ==
    NetworkInput
    => /\ SpecAddr(0) \in Addr
       /\ cpu.ip = prev.ip + 2
       /\ cpu.bp = prev.bp /\ cpu.mode = prev.mode
       /\ cpu.io_out = prev.io_out
       /\ IF prev.io_in = <<>>
          THEN /\ cpu.memory = [prev.memory EXCEPT ![SpecAddr(0)] = -1]
               /\ cpu.io_in = <<>>
               /\ cpu.state = "Ready"
          ELSE /\ cpu.memory = [prev.memory EXCEPT
                                   ![SpecAddr(0)] = prev.io_in[Len(prev.io_in)]]
               /\ cpu.io_in = SubSeq(prev.io_in, 1, Len(prev.io_in) - 1)
               /\ cpu.state = "Active"

C17_Witness ==
    /\ NetworkInput /\ prev.io_in = <<>> /\ PInstr = 203 /\ prev.bp = BaseAdj
    /\ cpu.memory[prev.bp + Raw(0)] = -1 /\ prev.memory[prev.bp + Raw(0)] # -1
    /\ cpu.state = "Ready" /\ cpu.ip = prev.ip + 2

(***************************************************************************)
(* C18.  When run_network has looked at the output of machine i without    *)
(* panicking, either the machine had emitted nothing and nothing moved, or *)
(* it had emitted exactly a triple (dest, x, y), in that order, which is   *)
(* gone from its output queue: for dest = 255 the triple replaces the      *)
(* NAT's packet and no input queue changes; otherwise x and then y are     *)
(* appended to the input queue of machine dest, no other input queue       *)
(* changes and the NAT's packet stays.                                     *)
(***************************************************************************)
RouteStep == net.pc = "route" /\ net'.pc # "dead"

OtherInputsKept(S) ==
    \A j \in Nics \ S : net'.nics[j].io_in = net.nics[j].io_in

C18_Routing ==
    [][RouteStep =>
         LET e == net.emitted[net.i]
         IN  /\ net.nics[net.i].io_out = [k \in 1..Len(e) |-> e[Len(e) + 1 - k]]
             /\ net'.nics[net.i].io_out = <<>>
             /\ Len(e) \in {0, 3}
             /\ Len(e) = 0
                => (OtherInputsKept({}) /\ net'.nat_packet = net.nat_packet)
             /\ (Len(e) = 3 /\ e[1] = NatAddr)
                => (OtherInputsKept({}) /\ net'.nat_packet = <<e[2], e[3]>>)
             /\ (Len(e) = 3 /\ e[1] # NatAddr)
                => /\ e[1] \in Nics
                   /\ net'.nics[e[1]].io_in = <<e[3], e[2]>> \o net.nics[e[1]].io_in
                   /\ OtherInputsKept({e[1]})
                   /\ net'.nat_packet = net.nat_packet]_vars

C18_Witness ==
    /\ net.pc = "run" /\ net.i = 1 /\ net.program = N_To1
    /\ net.nics[1].io_in = <<6, 5, 1>> /\ net.nics[0].io_in = <<>>
    /\ net.nics[0].io_out = <<>> /\ net.nat_packet = <<0, 0>>

(***************************************************************************)
(* C19.  At the end of every pass over the machines, the first pass        *)
(* included, the NAT delivers to machine 0 exactly when no machine         *)
(* produced a packet during that pass.                                     *)
(***************************************************************************)
NatDelivered == net'.nics[0].io_in # net.nics[0].io_in

C19_IdleDetection ==
    [][net.pc = "idle" => (NatDelivered <=> net.packets = 0)]_vars

(***************************************************************************)
(* C20.  At the end of a pass the orchestrator treats as idle, the NAT's   *)
(* packet (x, y) is appended, x then y, to the input queue of machine 0,   *)
(* no other field of any machine changes, the NAT keeps its packet, and,   *)
(* unless the protocol returns there, that packet becomes the previous     *)
(* delivery; at the end of a pass not treated as idle no machine, and      *)
(* neither packet, changes.                                                *)
(***************************************************************************)
C20_NatDelivery ==
    [][net.pc = "idle" =>
         /\ net'.nat_packet = net.nat_packet
         /\ IF net.is_idle
            THEN /\ net'.nics = [net.nics EXCEPT ![0].io_in =
                        <<net.nat_packet[2], net.nat_packet[1]>> \o @]
                 /\ net'.pc # "done" => net'.prev_nat = net.nat_packet
                 /\ net'.pc = "done" => net'.prev_nat = net.prev_nat
            ELSE /\ net'.nics = net.nics
                 /\ net'.prev_nat = net.prev_nat]_vars

C20_Witness ==
    /\ net.program = N_Nat /\ net.pc = "run" /\ net.i = 0 /\ ~net.first
    /\ net.nat_packet = <<7, 8>> /\ net.prev_nat = <<7, 8>>
    /\ net.nics[0].io_in = <<8, 7>> /\ net.nics[1].io_in = <<>>

(***************************************************************************)
(* C21.  run_network returns at an idle delivery exactly when the NAT has  *)
(* delivered before and the y of the packet now delivered equals the y of  *)
(* the delivery just before it, whatever the two x are; it returns at no   *)
(* other point, and the value it reports is that y.                        *)
(***************************************************************************)
LastDelivery == net.natlog[Len(net.natlog)]

RepeatedY ==
    /\ net.is_idle
    /\ net.natlog # <<>>
    /\ net.nat_packet[2] = LastDelivery[2]

C21_RepeatedY ==
    [][net.pc = "idle" =>
         /\ (net'.pc = "done") <=> RepeatedY
         /\ net'.pc = "done" => net'.result = net.nat_packet[2]]_vars

(***************************************************************************)
(* C22.  A network that settles is eventually left by run_network, after   *)
(* two consecutive NAT deliveries with the same y, and that y is the       *)
(* value reported.                                                         *)
(***************************************************************************)
TwoDeliveriesSameY ==
    /\ Len(net.natlog) >= 2
    /\ net.natlog[Len(net.natlog) - 1][2] = LastDelivery[2]
    /\ net.result = LastDelivery[2]

C22_SettledNetworkTerminates ==
    [](net.program \in Settling => <>(net.pc = "done" /\ TwoDeliveriesSameY))

(***************************************************************************)
(* The machines of whichever orchestrator is running, and the index of     *)
(* its loop over them.                                                     *)
(***************************************************************************)
OrchOn == net.pc # "none" \/ amps.pc # "none"
OrchM == IF net.pc # "none" THEN net.nics ELSE amps.m
OrchI == IF net.pc # "none" THEN net.i ELSE amps.i
OrchIdx == DOMAIN OrchM

Rev(q) == [k \in 1..Len(q) |-> q[Len(q) + 1 - k]]

\* a value is put on an input queue or taken from an output queue
Transfer ==
    \E j \in OrchIdx :
       \/ Len(OrchM'[j].io_in) > Len(OrchM[j].io_in)
       \/ Len(OrchM'[j].io_out) < Len(OrchM[j].io_out)

NoneActive == \A j \in OrchIdx : OrchM[j].state # "Active"

(***************************************************************************)
(* C23.  In each of the three orchestrators only the machine the loop      *)
(* index points at is ever running, the index only steps up by one or      *)
(* returns to 0, and a value is moved between queues only while no         *)
(* machine is running.  In run_network every machine's run is entered      *)
(* once per pass, in ascending order; the values of a packet routed to     *)
(* machine j are in j's queue when its run of the same pass is entered     *)
(* if the sender's index is below j, and otherwise are routed after that   *)
(* run was entered and still sit in the queue when the pass ends.          *)
(***************************************************************************)
RunsInOrder ==
    /\ \A j \in OrchIdx : OrchM[j].state = "Active" => j = OrchI
    /\ net.pc = "run" => net.ran = 0..(net.i - 1)
    /\ net.pc \in {"cycle", "route"} => net.ran = 0..net.i
    /\ net.pc = "idle" => net.ran = Nics

SameStepReadable ==
    /\ net.pc = "run" => IsPrefix(Rev(net.early[net.i]), net.nics[net.i].io_in)
    /\ net.pc = "idle"
       => \A j \in Nics : /\ IsPrefix(Rev(net.late[j]), net.nics[j].io_in)
                          /\ net.nics[j].state # "Active"

OrderedStep ==
    /\ OrchI' # OrchI => (OrchI' = OrchI + 1 \/ OrchI' = 0)
    /\ Transfer => NoneActive
    /\ net.pc = "route"
       => \A j \in Nics :
             /\ net'.early[j] # net.early[j] => j > net.i
             /\ net'.late[j] # net.late[j] => j <= net.i

C23_ServiceOrder ==
    /\ [](OrchOn => RunsInOrder /\ SameStepReadable)
    /\ [][OrchOn /\ OrchOn' => OrderedStep]_vars

C23_Witness ==
    /\ net.pc = "route" /\ net.program = N_Up /\ net.first /\ net.i = 1
    /\ net.early[1] = <<5, 6>>
    /\ net.nics[1].memory[21] = 5 /\ net.nics[1].memory[22] = 6
    /\ net.nics[1].state = "Halted"

(***************************************************************************)
(* C24.  A cycle of the running machine, in the pipeline, the feedback     *)
(* ring and the network, leaves every other machine as it was, field for   *)
(* field, and leaves the orchestrator's own variables alone; whenever a    *)
(* machine's input queue changes while that machine is not the one         *)
(* running, no machine is running: the orchestrator did it.                *)
(***************************************************************************)
RunningCycle == \E j \in OrchIdx : OrchM[j].state = "Active"

OrchLocals ==
    IF net.pc # "none"
    THEN <<net.nat_packet, net.prev_nat, net.is_idle, net.i>>
    ELSE <<amps.output, amps.max_output, amps.max_phases, amps.k>>

C24_MachineIsolation ==
    [][OrchOn /\ OrchOn' =>
         /\ RunningCycle
            => /\ \A j \in OrchIdx \ {OrchI} : OrchM'[j] = OrchM[j]
               /\ OrchLocals' = OrchLocals
         /\ \A j \in OrchIdx :
               (OrchM'[j].io_in # OrchM[j].io_in /\ ~(RunningCycle /\ j = OrchI))
                  => NoneActive]_vars

C24_Witness ==
    /\ net.pc = "cycle" /\ net.program = N_Up /\ net.i = 1 /\ net.first
    /\ net.nics[1].memory[21] = 5 /\ net.nics[1].io_in = <<6>>
    /\ net.nics[0].io_in = <<>> /\ net.nics[0].state = "Ready"

(***************************************************************************)
(* C25.  In every generation of the machine, day07 and day09 included, an  *)
(* input instruction that finds the input queue empty (outside network     *)
(* mode) does not fault: the cycle ends with the machine in state Ready    *)
(* and the queue still empty.                                              *)
(***************************************************************************)
C25_InputNeverFaults ==
    (/\ Cycled /\ ValidInstr /\ InputStarved
     /\ prev.mode.kind # "Network"
     /\ Digit(PInstr, 0) \in ModeDigits /\ OperandsOnTape)
    => /\ cpu.fault = "none"
       /\ cpu.state = "Ready"
       /\ cpu.io_in = <<>>

(***************************************************************************)
(* C26.  A cycle whose instruction word has an opcode outside the table    *)
(* faults with InvalidOpcode and changes nothing else: tape, both queues   *)
(* (so what earlier cycles emitted is still in the output queue), pointer  *)
(* and base are as before; and a machine with that fault is exactly as     *)
(* the faulting cycle left it: nothing ran after it.                       *)
(***************************************************************************)
C26_InvalidOpcodeFatal ==
    /\ (Cycled /\ ~ValidInstr)
       => /\ cpu.fault = "InvalidOpcode"
          /\ SameTape /\ SameQueues
          /\ cpu.ip = prev.ip /\ cpu.bp = prev.bp
          /\ cpu.state = "Active"
    /\ cpu.fault = "InvalidOpcode"
       => /\ Cycled /\ ~ValidInstr
          /\ cpu = [prev EXCEPT !.fault = "InvalidOpcode"]

C26_Witness ==
    /\ prog = OutBad /\ Cycled /\ prev.ip = 2
    /\ cpu.fault = "InvalidOpcode" /\ cpu.io_out = <<7>> /\ hist.outs = 1

(***************************************************************************)
(* C27.  (Generations with relative write targets.)  A cycle that has to   *)
(* fetch its instruction or one of its operands from, read an operand at,  *)
(* or store to an address that is negative or not below the tape capacity  *)
(* faults, with the tape unchanged: no cell inside the tape stands in for  *)
(* the address.                                                            *)
(***************************************************************************)
ModesValid == \A i \in 0..(TableN(POpc) - 1) : Digit(PInstr, i) \in ModeDigits

\* operand i is an address the cycle has to use
Accessed(i) ==
    IF TableW(POpc) /\ i = TableN(POpc) - 1
    THEN ~(POpc = 3 /\ prev.io_in = <<>> /\ prev.mode.kind # "Network")
    ELSE Digit(PInstr, i) # 1

BadAccess ==
    \E i \in 0..(TableN(POpc) - 1) : Accessed(i) /\ SpecAddr(i) \notin Addr

OutOfBoundsPanic == cpu.fault = "OutOfBounds" /\ SameTape

C27_AddressOutOfBounds ==
    (act = "Cycle" /\ variant # "day07")
    => /\ prev.ip \notin Addr => (OutOfBoundsPanic /\ SameQueues)
       /\ (Cycled /\ ValidInstr /\ ModesValid /\ ~OperandsOnTape)
          => (OutOfBoundsPanic /\ SameQueues)
       /\ (Cycled /\ ValidInstr /\ ModesValid /\ OperandsOnTape /\ BadAccess
           /\ ~(InputStarved /\ ~BlockingIn(variant)))
          => OutOfBoundsPanic

C27_Witness ==
    /\ act = "Cycle" /\ variant = "day23" /\ prev.ip = UsizeMod - 1
    /\ cpu.fault = "OutOfBounds" /\ cpu.memory = prev.memory

(***************************************************************************)
(* C30.  The run that ends, for the relative-base program either as        *)
(* quoted or as amended, and what the output queue then holds, oldest      *)
(* value first.                                                            *)
(* As quoted: the program [109,1,204,-1,1101,100,1,85,8,0,208,-1,203,1,99] *)
(* run with nothing queued ends Halted having emitted its own cells in     *)
(* order.                                                                  *)
(* As amended: the program [109,1,204,-1,1001,100,1,100,1008,100,16,101,   *)
(* 1006,101,0,99] does; the quoted one emits its first cell, 109, and      *)
(* faults in the instruction at address 8, whose write target is -1.       *)
(***************************************************************************)
RunEnded == act = "Cycle" /\ (cpu.state # "Active" \/ cpu.fault # "none")

EmitsItself ==
    /\ cpu.state = "Halted" /\ cpu.fault = "none"
    /\ Rev(cpu.io_out) = prog

C30_QuotedQuine == (prog = SpecQuoted /\ RunEnded) => EmitsItself

C30_Quine ==
    /\ (prog = Quine /\ RunEnded) => EmitsItself
    /\ (prog = SpecQuoted /\ RunEnded)
       => /\ cpu.fault = "OutOfBounds"
          /\ prev.ip = 8
          /\ cpu.io_out = <<109>>
          /\ cpu.memory[85] = 101

C30_Witness ==
    /\ prog = Quine /\ variant = "day09" /\ RunEnded
    /\ cpu.state = "Halted" /\ Len(cpu.io_out) = Len(Quine)
    /\ cpu.bp = Len(Quine)

(***************************************************************************)
(* The early interpreters.                                                 *)
(***************************************************************************)
\* add/multiply/halt with position-mode operands, four cells per
\* instruction: the outcome of running `mem` from `ip`, ok when opcode 99
\* is reached and then v is cell 0 at that moment
RECURSIVE Ref02(_, _)
Ref02(mem, ip) ==
    LET stuck == [ok |-> FALSE, v |-> 0]
    IN  IF ip \notin DOMAIN mem THEN stuck
        ELSE IF mem[ip] = 99 THEN [ok |-> TRUE, v |-> mem[0]]
        ELSE IF mem[ip] \notin {1, 2} \/ (ip + 3) \notin DOMAIN mem THEN stuck
        ELSE LET s1 == mem[ip + 1]
                 s2 == mem[ip + 2]
                 d  == mem[ip + 3]
             IN  IF {s1, s2, d} \subseteq DOMAIN mem
                 THEN Ref02([mem EXCEPT ![d] = IF mem[ip] = 1 THEN mem[s1] + mem[s2]
                                                ELSE mem[s1] * mem[s2]], ip + 4)
                 ELSE stuck

\* the program with cells 1 and 2 replaced by the two inputs
Patched02 ==
    [k \in DOMAIN Vec(legacy.program) |->
        IF k = 1 THEN legacy.input1
        ELSE IF k = 2 THEN legacy.input2 ELSE legacy.program[k + 1]]

Ended02 == legacy.kind = "day02" /\ legacy.pc \in {"done", "dead"}

IsExample02 ==
    legacy.program = Example02 /\ legacy.input1 = 9 /\ legacy.input2 = 10

\* C28: execute(program, a, b) returns cell 0 as it is when opcode 99 is
\* reached under add/multiply/halt position-mode semantics on the program
\* with cells 1 and 2 replaced by a and b: whenever that run reaches 99,
\* execute returns and its value is that cell, and execute leaves through
\* its 99 arm only when that run reaches 99; the example with a = 9,
\* b = 10 returns 3500.
C28_Execute ==
    Ended02 /\ Len(legacy.program) >= 3 =>
        LET r == Ref02(Patched02, 0)
        IN  /\ r.ok => legacy.pc = "done" /\ legacy.exit = "halt"
                       /\ legacy.result = r.v
            /\ legacy.exit = "halt" => r.ok /\ legacy.result = legacy.memory[0]
            /\ IsExample02 => legacy.pc = "done" /\ legacy.result = 3500

C28_Witness ==
    /\ Ended02 /\ IsExample02
    /\ legacy.pc = "done" /\ legacy.exit = "halt" /\ legacy.result = 3500

RunsCase2 == legacy.kind = "day05" /\ legacy.program = Case2

\* C29: [1002,4,3,4,33] run from address 0 executes exactly one
\* instruction: it multiplies tape[4] = 33, read in position mode, by the
\* literal 3, stores 99 at address 4 and leaves the pointer on that cell;
\* the next decode halts there, and the run never panics.
C29_ImmediateMultiply ==
    RunsCase2 =>
        /\ legacy.pc # "dead"
        /\ legacy.cycles <= 1
        /\ legacy.cycles = 1 =>
               /\ legacy.mode[0] = 0 /\ legacy.mode[1] = 1
               /\ legacy.reg[0] = 33 /\ legacy.reg[1] = 3
               /\ legacy.memory = [Vec(Case2) EXCEPT ![4] = 99]
               /\ legacy.ip = 4
        /\ legacy.pc = "done" => legacy.cycles = 1 /\ legacy.ip = 4

C29_Witness ==
    /\ RunsCase2 /\ legacy.pc = "done"
    /\ legacy.cycles = 1 /\ legacy.memory[4] = 99

(***************************************************************************)
(* The loader.                                                             *)
(***************************************************************************)
Loaded == legacy.kind = "loader" /\ legacy.pc # "new"

AllBlank(t) == \A k \in 1..Len(t) : t[k] \in Blank

\* a signed decimal integer: an optional minus sign and at least one digit
IsInteger(tok) ==
    \E n \in 1..Len(tok) :
        /\ \A k \in (Len(tok) - n + 1)..Len(tok) : tok[k] \in Digits
        /\ Len(tok) - n \in {0, 1}
        /\ Len(tok) - n = 1 => tok[1] = "-"

\* the maximal comma-free stretches of a text without its outer blanks
TokenAt(t, a, b) ==
    /\ 1 <= a /\ a <= b + 1 /\ b <= Len(t)
    /\ \A k \in a..b : t[k] # ","
    /\ a = 1 \/ t[a - 1] = ","
    /\ b = Len(t) \/ t[b + 1] = ","

HasBadToken(t) ==
    LET u == Trim(t)
    IN  \E a \in 1..(Len(u) + 1), b \in 0..Len(u) :
            TokenAt(u, a, b) /\ ~IsInteger(SubSeq(u, a, b))

\* C31: the loader returns an empty program, without a parse error, for
\* an empty or blank text, and rejects with a parse error every other
\* text holding a token that is not a signed decimal integer.
C31_Loader ==
    Loaded =>
        /\ AllBlank(legacy.input) => legacy.pc = "done" /\ legacy.program = <<>>
        /\ ~AllBlank(legacy.input) /\ HasBadToken(legacy.input) => legacy.pc = "dead"

(***************************************************************************)
(* The loop of run.                                                        *)
(***************************************************************************)
InRunSpec == legacy.kind = "run"
Returned32 == InRunSpec /\ legacy.pc = "caller" /\ legacy.calls > 0

\* C32: a run that has returned left the machine Ready or Halted, never
\* Active; a cycle executes only on an Active machine, the loop goes on
\* after a cycle that left the machine Active and returns after a cycle
\* that did not, so no cycle follows the suspending or halting one until
\* the next call.
C32_RunLoop ==
    InRunSpec =>
        /\ Returned32 => cpu.state \in {"Ready", "Halted"}
        /\ act = "Cycle" => prev.state = "Active"
        /\ act = "Cycle" /\ cpu.fault = "none" =>
               (cpu.state = "Active" <=> legacy.pc = "loop")
        /\ act = "Cycle" /\ cpu.fault = "none" /\ cpu.state # "Active" =>
               legacy.pc = "caller"

C32_Witness ==
    /\ Returned32 /\ act = "Cycle" /\ cpu.state = "Ready"
    /\ legacy.calls = 2 /\ prev.state = "Active"

(***************************************************************************)
(* The network orchestrator, continued.                                    *)
(***************************************************************************)
\* the machine whose run has just returned to run_network
JustRan == net.pc = "route"

\* C33: when a machine's run has returned to run_network its output queue
\* is empty or holds exactly three values, so popping destination, x and
\* y never underflows.
C33_TripleOutput ==
    /\ JustRan => Len(net.nics[net.i].io_out) \in {0, 3}
    /\ net.pc = "dead" => \A j \in Nics : net.nics[j].fault # "NoOutput"

\* C34: every packet the NAT delivers to machine 0 is a packet some
\* machine sent to address 255 before, run_network does not return before
\* the NAT has received a packet, and the value it reports is the y of a
\* packet the NAT received.
C34_NatHoldsReceived ==
    /\ \A k \in DOMAIN net.natlog : net.natlog[k] \in net.natgot
    /\ net.pc = "done" =>
           /\ net.natgot # {}
           /\ \E p \in net.natgot : p[2] = net.result

(***************************************************************************)
(* The feedback loop, continued.                                           *)
(***************************************************************************)
\* the last machine has been run in this round and its latest output is
\* about to be read
LastRan == amps.kind = "feedback" /\ amps.pc = "latest"

\* C35: in the feedback loop, after the last machine has been run in a
\* round its output queue is not empty, also when that run halted it, so
\* reading its latest output does not fail.
C35_LastOutput ==
    LastRan => amps.m[NAmps - 1].io_out # <<>>

\* the value run_feedback_loop last read from the last machine in the
\* current permutation's run
OwnOutput == amps.emitted[NAmps - 1][Len(amps.emitted[NAmps - 1])]

\* C36: the value get_max_feedback compares for a permutation comes from
\* that permutation's own run: the last output read from the last machine
\* when a round was completed, and otherwise the value a search starting
\* at this permutation would compare (the initial 0), never the output
\* left by an earlier permutation.
C36_OwnOutput ==
    Returned =>
        amps.output = IF amps.rounds = 0 THEN 0 ELSE OwnOutput

PostAdvance == variant \in {"day11", "day23"}

\* a call of run made on a Halted machine has just ended
HaltedRerun ==
    /\ InRunSpec /\ legacy.calls > 0
    /\ legacy.entry.state = "Halted"
    /\ legacy.pc # "loop" /\ act = "Cycle"

\* C37: in the generations that advance the pointer after executing, run
\* on a Halted machine executes one cycle, the halt instruction under the
\* pointer, and returns with the machine Halted and tape, pointer,
\* relative base and both queues as the call found them.
C37_HaltedRerun ==
    PostAdvance /\ HaltedRerun =>
        /\ legacy.pc = "caller"
        /\ legacy.cycles = 1
        /\ prev.memory[prev.ip] % 100 = 99
        /\ cpu.state = "Halted"
        /\ cpu.memory = legacy.entry.memory
        /\ cpu.ip = legacy.entry.ip
        /\ cpu.bp = legacy.entry.bp
        /\ cpu.io_in = legacy.entry.io_in
        /\ cpu.io_out = legacy.entry.io_out

C37_Witness ==
    /\ PostAdvance /\ HaltedRerun
    /\ legacy.calls = MaxCalls /\ legacy.pc = "caller"
    /\ cpu.io_out # <<>> /\ cpu.ip > 0

(***************************************************************************)
(* Immediate-mode write targets.                                           *)
(***************************************************************************)
\* the slot of the write-target operand of a storing opcode
WSlot == TableN(POpc) - 1

\* a cycle on a storing instruction whose write target has mode digit 1
\* and whose read operands can be resolved
ImmWriteCycle ==
    /\ Cycled /\ ValidInstr /\ OperandsOnTape
    /\ POpc \in {1, 2, 3, 7, 8}
    /\ Digit(PInstr, WSlot) = 1
    /\ \A i \in 0..(WSlot - 1) : Digit(PInstr, i) \in ModeDigits /\ Resolvable(i)

\* the value an input instruction stores, where it stores one
InputTaken ==
    IF prev.io_in # <<>> THEN prev.io_in[Len(prev.io_in)] ELSE -1
InputStores == prev.io_in # <<>> \/ prev.mode.kind = "Network"

\* C38: a storing instruction (opcode 1, 2, 3, 7, 8) whose write-target
\* operand has mode digit 1 does not fault and does not skip the write:
\* the result is stored at address raw, the operand itself, as position
\* mode would, and the pointer moves past the instruction; it faults only
\* when raw is no address of the tape.
C38_ImmediateWrite ==
    ImmWriteCycle /\ (POpc = 3 => InputStores) =>
        IF Raw(WSlot) \in Addr
        THEN /\ cpu.fault = "none"
             /\ cpu.memory = [prev.memory EXCEPT ![Raw(WSlot)] =
                                 IF POpc = 3 THEN InputTaken
                                 ELSE SpecResult(POpc, SpecVal(0), SpecVal(1))]
             /\ cpu.ip = prev.ip + TableN(POpc) + 1
             /\ cpu.bp = prev.bp
        ELSE cpu.fault = "OutOfBounds"

C38_Witness ==
    /\ ImmWriteCycle /\ POpc = 2 /\ variant = "day23"
    /\ Raw(WSlot) = 0 /\ prev.bp # 0
    /\ cpu.memory[0] # prev.memory[0]
    /\ cpu.fault = "none"

\* C39: the NAT keeps its packet after delivering it: as long as nothing
\* has been routed since an idle step the held packet is the one that
\* step delivered, and a second idle step in a row delivers that packet
\* again and run_network returns at that step, reporting its y.
C39_SecondIdle ==
    /\ net.idles >= 1 /\ net.packets = 0 => net.nat_packet = LastDelivery
    /\ net.idles >= 2 =>
           /\ net.pc = "done" /\ net.idles = 2
           /\ Len(net.natlog) >= 2
           /\ net.natlog[Len(net.natlog) - 1] = LastDelivery
           /\ net.result = LastDelivery[2]
           /\ net.nics[0].io_in[1] = LastDelivery[2]
           /\ net.nics[0].io_in[2] = LastDelivery[1]

C39_Witness ==
    /\ net.pc = "done" /\ net.idles = 2
    /\ net.natgot # {} /\ LastDelivery \in net.natgot

(***************************************************************************)
(* The generations compared.                                               *)
(***************************************************************************)
BothRan == rs.phase = "new" /\ Stopped(rs.old) /\ Stopped(rs.new)

\* an input instruction met an empty queue: day09 panics there, the later
\* generations suspend
Starved == rs.old.fault = "NoIo" \/ rs.new.state = "Ready"

\* C40: on a program and input sequence whose input instructions never
\* meet an empty queue, the day09 machine and the day11/day23 machine in
\* normal mode either both fault or both reach Halted, and then with the
\* same tape, relative base and output queue.
C40_Generations ==
    BothRan /\ ~Starved =>
        /\ (rs.old.fault = "none") <=> (rs.new.fault = "none")
        /\ rs.old.fault = "none" =>
               /\ rs.old.state = "Halted" /\ rs.new.state = "Halted"
               /\ rs.old.memory = rs.new.memory
               /\ rs.old.bp = rs.new.bp
               /\ rs.old.io_out = rs.new.io_out

C40_Witness ==
    /\ BothRan /\ ~Starved /\ rs.p = JmpIn /\ Len(rs.ins) = 2
    /\ rs.old.state = "Halted" /\ rs.new.state = "Halted"
    /\ rs.new.io_out # <<>> /\ rs.old.ip # rs.new.ip

====
